---- MODULE Spec2Model ----
(***************************************************************************)
(* Matched Funding engine of rs/nns/governance/src/neurons_fund.rs.        *)
(*                                                                         *)
(* Amounts are u64 e8s in the source.  The model keeps the structure of    *)
(* every computation and scales the widths so that TLC can enumerate the   *)
(* inputs: u64 is 16 bits wide (U64_MAX), the theoretical hard cap is 333  *)
(* units, and rust_decimal's Decimal (96-bit mantissa, up to 28 fractional *)
(* digits) is a fixed-point number with DecScale units per 1.              *)
(***************************************************************************)
EXTENDS Integers, Sequences, FiniteSets, TLC

VARIABLES
    \* ---- participation lifecycle (NeuronsFundParticipation) ----
    pc,         \* "new" | "reserved" | "validated" | "wire_validated" | "constrained" | "finalized" | "settled"
    limits,     \* SwapParticipationLimits given to `new`
    roster,     \* Vec<NeuronsFundNeuron> given to `new`
    initial,    \* result of NeuronsFundParticipation::new
    final_direct, \* the argument d of from_initial_participation
    final,      \* result of initial.from_initial_participation(d)
    refund,     \* result of initial.snapshot().diff(final.snapshot())
    validated,  \* result of NeuronsFundParticipationPb::from(initial).validate()
    received,   \* a NeuronsFundParticipationPb received over the wire and validated
    offered,    \* result of initial.compute_constraints()
    \* ---- MatchedParticipationFunction ----
    mpc,        \* "wire" | "built" | "rejected" | "echoed"
    constraints, \* the NeuronsFundParticipationConstraints handed to try_from
    params,     \* result of ValidatedNeuronsFundParticipationConstraints::try_from
    calls,      \* the calls of apply made so far: [d, ideal, out]
    echoed,     \* result of try_from(NeuronsFundParticipationConstraints::from(params))
    \* ---- IntervalPartition::find_interval ----
    fpc,        \* "idle" | "done"
    intervals,  \* the partition's cells
    key,        \* the key x looked up
    found,      \* the Option returned: the index of the cell, or None
    \* ---- InvertibleFunction::invert_with_tracing ----
    ipc,        \* "idle" | "loop" | "exact" | "best_effort" | "error" | "panic"
    fn,         \* the function inverted
    target_y,   \* the Decimal to invert
    search,     \* the locals: left, right, x, y, prev_coords, trace
    result,     \* the Result returned
    \* ---- NeuronStore mutated by apply_neurons_fund_snapshot ----
    spc,        \* "empty" | "ready" | "mutated"
    neuron_store, \* neuron id -> maturity_e8s_equivalent
    mutation,   \* the last call: action, snapshot, store before, Result
    \* ---- NeuronsFundSnapshot::diff on any two snapshots ----
    dpc,        \* "idle" | "done"
    minuend,    \* self
    subtrahend, \* other
    difference, \* the Result of self.diff(other)
    \* ---- NeuronsFundNeuronPortionPb::validate on any wire portion ----
    vpc,        \* "idle" | "done"
    wire_portion,    \* the NeuronsFundNeuronPortionPb
    checked_portion, \* the Result of wire_portion.validate()
    \* ---- a swap from reservation to settlement, with the NeuronStore ----
    swap_pc,    \* "new" | "reserved" | "drawn" | "finalized" | "settled" | "*_failed"
    swap_state, \* limits, roster, initial, d, final and refund of the swap
    fund_store, \* neuron id -> maturity_e8s_equivalent
    apply_results \* the Results of the draw and of the refund

lifeVars == <<pc, limits, roster, initial, final_direct, final, refund, validated, received, offered>>
matchVars == <<mpc, constraints, params, calls, echoed>>
findVars == <<fpc, intervals, key, found>>
invertVars == <<ipc, fn, target_y, search, result>>
storeVars == <<spc, neuron_store, mutation>>
diffVars == <<dpc, minuend, subtrahend, difference>>
portionVars == <<vpc, wire_portion, checked_portion>>
swapVars == <<swap_pc, swap_state, fund_store, apply_results>>
vars == <<lifeVars, matchVars, findVars, invertVars, storeVars, diffVars, portionVars,
         swapVars>>

\* What the steps of one component leave unchanged.
exceptLifeVars == <<matchVars, findVars, invertVars, storeVars, diffVars, portionVars, swapVars>>
exceptMatchVars == <<lifeVars, findVars, invertVars, storeVars, diffVars, portionVars, swapVars>>
exceptFindVars == <<lifeVars, matchVars, invertVars, storeVars, diffVars, portionVars, swapVars>>
exceptInvertVars == <<lifeVars, matchVars, findVars, storeVars, diffVars, portionVars, swapVars>>
exceptStoreVars == <<lifeVars, matchVars, findVars, invertVars, diffVars, portionVars, swapVars>>
exceptDiffVars == <<lifeVars, matchVars, findVars, invertVars, storeVars, portionVars, swapVars>>
exceptPortionVars == <<lifeVars, matchVars, findVars, invertVars, storeVars, diffVars, swapVars>>
exceptSwapVars == <<lifeVars, matchVars, findVars, invertVars, storeVars, diffVars, portionVars>>

-----------------------------------------------------------------------------
(* Bounds of the model *)

\* Largest roster handed to `new`.
MaxNeurons == 3
\* Realized direct participation d ranges over 0..MaxDirect and U64_MAX.
MaxDirect == 4
\* Upper bounds of the coefficient intervals, and the arguments of apply,
\* range over 0..MaxBoundary.
MaxBoundary == 3
\* Keys and cell bounds of the partitions searched by find_interval.
MaxKey == 4
\* Longest partition searched by find_interval.
MaxCells == 3
\* Most points at which an inverted function steps up.
MaxSteps == 1
\* Neuron ids of the NeuronStore and of the snapshots applied to it.
MaxStoreNeurons == 3
\* Neuron ids of the snapshots handed to diff.
MaxDiffNeurons == 2

-----------------------------------------------------------------------------
(* Integers and decimals *)

\* u64::MAX, with u64 scaled to 16 bits.
U64_MAX == 2^16 - 1

Min(a, b) == IF a <= b THEN a ELSE b

\* u64::saturating_add
saturating_add(a, b) == Min(a + b, U64_MAX)

\* MAX_THEORETICAL_NEURONS_FUND_PARTICIPATION_AMOUNT_ICP_E8S = 333_000 * E8,
\* scaled to the model's unit.
MAX_THEORETICAL_NEURONS_FUND_PARTICIPATION_AMOUNT_ICP_E8S == 333
MAX_NEURONS_FUND_PARTICIPATION_BASIS_POINTS == 1000
BASIS_POINTS_PER_UNITY == 10000

\* The 10% share rounded to the nearest integer instead of rounded down.
take_maxMutantRoundsToNearest(x) ==
    Min((x * MAX_NEURONS_FUND_PARTICIPATION_BASIS_POINTS + BASIS_POINTS_PER_UNITY \div 2)
            \div BASIS_POINTS_PER_UNITY,
        U64_MAX)

\* Computed in u128, where the product cannot saturate, then clamped to u64.
take_max_initial_neurons_fund_participation_percentage(x) ==
    Min((x * MAX_NEURONS_FUND_PARTICIPATION_BASIS_POINTS) \div BASIS_POINTS_PER_UNITY,
        U64_MAX)

\* A Decimal d is the integer d * DecScale; the source's 28 fractional digits
\* are scaled to 2.
DecScale == 10 * 10

\* n / d rounded to the nearest integer, ties to even (n >= 0, d > 0).
RoundHalfEven(n, d) ==
    LET q == n \div d
        r == n % d
    IN  IF 2 * r > d \/ (2 * r = d /\ q % 2 = 1) THEN q + 1 ELSE q

u64_to_dec(x) == x * DecScale

\* Decimal division: the quotient keeps as many fractional digits as the
\* mantissa holds and is rounded in the last one.
DecDiv(a, b) == RoundHalfEven(a * DecScale, b)

\* Decimal multiplication (exact whenever one factor is a whole number).
DecMul(a, b) == RoundHalfEven(a * b, DecScale)

DecMin(a, b) == Min(a, b)

Ok(v) == [tag |-> "Ok", val |-> v]
Err(e) == [tag |-> "Err", val |-> e]
\* The call did not return: a panic unwinds out of it.
Abort == [tag |-> "Abort", val |-> "panic"]
NoResult == [tag |-> "None", val |-> "none"]

\* dec_to_u64: negative -> Err; round half-even at scale 0; overflow -> Err.
dec_to_u64(x) ==
    IF x < 0 THEN Err("negative")
    ELSE LET r == RoundHalfEven(x, DecScale)
         IN  IF r > U64_MAX THEN Err("overflow") ELSE Ok(r)

-----------------------------------------------------------------------------
(* SimpleLinearFunction *)

SimpleLinearFunctionToken == "<SimpleLinearFunction>"

\* A constructor that takes every representation.
SimpleLinearFunction_newMutantAcceptsAll(repr) == Ok("SimpleLinearFunction")

\* SimpleLinearFunction::new(repr)
SimpleLinearFunction_new(repr) ==
    IF repr = SimpleLinearFunctionToken THEN Ok("SimpleLinearFunction")
    ELSE Err("Cannot deserialize")

\* SimpleLinearFunction::serialize
SimpleLinearFunction_serialize == SimpleLinearFunctionToken

\* SimpleLinearFunction::apply
SimpleLinearFunction_apply(x) == u64_to_dec(x)

-----------------------------------------------------------------------------
(* NeuronsFundSnapshot: a map from neuron id to its portion *)

RECURSIVE FoldAmounts(_, _)
FoldAmounts(neurons, ids) ==
    IF ids = {} THEN 0
    ELSE LET id == CHOOSE i \in ids : \A k \in ids : i <= k
         IN  saturating_add(neurons[id].amount_icp_e8s,
                            FoldAmounts(neurons, ids \ {id}))

\* NeuronsFundSnapshot::total_amount_icp_e8s: a saturating fold.
total_amount_icp_e8s(neurons) == FoldAmounts(neurons, DOMAIN neurons)

\* The checks without the one on is_capped.
DiffPortionErrorMutantIgnoresCap(left, right) ==
    \/ right.amount_icp_e8s > left.amount_icp_e8s
    \/ right.maturity_equivalent_icp_e8s # left.maturity_equivalent_icp_e8s
    \/ right.controller # left.controller

\* The checks diff makes on an id present on both sides.
DiffPortionError(left, right) ==
    \/ right.amount_icp_e8s > left.amount_icp_e8s
    \/ right.maturity_equivalent_icp_e8s # left.maturity_equivalent_icp_e8s
    \/ right.controller # left.controller
    \/ (right.is_capped /\ ~left.is_capped)

\* The portion diff emits for one id of self.
DiffMutantKeepsLeftAmount(left, other, id) == left

\* The portion with the left side's is_capped.
DiffMutantKeepsLeftCap(left, other, id) ==
    IF id \in DOMAIN other
    THEN [left EXCEPT !.amount_icp_e8s = left.amount_icp_e8s - other[id].amount_icp_e8s]
    ELSE left

DiffPortion(left, other, id) ==
    IF id \in DOMAIN other
    THEN [id |-> id,
          controller |-> left.controller,
          amount_icp_e8s |-> left.amount_icp_e8s - other[id].amount_icp_e8s,
          maturity_equivalent_icp_e8s |-> left.maturity_equivalent_icp_e8s,
          is_capped |-> other[id].is_capped]
    ELSE left

\* NeuronsFundSnapshot::diff
diff(self, other) ==
    IF \E id \in DOMAIN self \cap DOMAIN other : DiffPortionError(self[id], other[id])
    THEN Err("Cannot compute diff of two portions")
    ELSE IF DOMAIN other \ DOMAIN self # {}
    THEN Err("right-hand side contains extra neuron portions")
    ELSE Ok([id \in DOMAIN self |-> DiffPortion(self[id], other, id)])

-----------------------------------------------------------------------------
(* NeuronsFundParticipation *)

RECURSIVE FoldMaturity(_, _)
FoldMaturity(neurons_fund, n) ==
    IF n = 0 THEN 0
    ELSE saturating_add(FoldMaturity(neurons_fund, n - 1),
                        neurons_fund[n].maturity_equivalent_icp_e8s)

\* The rounded proportional amount of one neuron (new_impl, the closure's
\* first half).  Only called with a non-zero total.
ideal_participation_amount_icp_e8s(maturity, total, intended) ==
    dec_to_u64(DecMul(DecDiv(u64_to_dec(maturity), u64_to_dec(total)), intended))

\* The closure's second half: drop, cap or keep.  The result is a set holding
\* the portion, or the empty set when filter_map yields None.
PortionMutantNeverDrops(lim, neuron, ideal) ==
    IF ideal.tag # "Ok" THEN {}
    ELSE {[id |-> neuron.id,
           amount_icp_e8s |-> Min(ideal.val, lim.max_participant_icp_e8s),
           maturity_equivalent_icp_e8s |-> neuron.maturity_equivalent_icp_e8s,
           controller |-> neuron.controller,
           is_capped |-> ideal.val > lim.max_participant_icp_e8s]}

\* The cap applied from max_participant on, not only above it.
PortionMutantCapsAtEqual(lim, neuron, ideal) ==
    IF ideal.tag # "Ok" THEN {}
    ELSE IF ideal.val < lim.min_participant_icp_e8s THEN {}
    ELSE {[id |-> neuron.id,
           amount_icp_e8s |-> Min(ideal.val, lim.max_participant_icp_e8s),
           maturity_equivalent_icp_e8s |-> neuron.maturity_equivalent_icp_e8s,
           controller |-> neuron.controller,
           is_capped |-> ideal.val >= lim.max_participant_icp_e8s]}

Portion(lim, neuron, ideal) ==
    IF ideal.tag # "Ok" THEN {}
    ELSE IF ideal.val < lim.min_participant_icp_e8s THEN {}
    ELSE IF ideal.val > lim.max_participant_icp_e8s
    THEN {[id |-> neuron.id,
           amount_icp_e8s |-> lim.max_participant_icp_e8s,
           maturity_equivalent_icp_e8s |-> neuron.maturity_equivalent_icp_e8s,
           controller |-> neuron.controller,
           is_capped |-> TRUE]}
    ELSE {[id |-> neuron.id,
           amount_icp_e8s |-> ideal.val,
           maturity_equivalent_icp_e8s |-> neuron.maturity_equivalent_icp_e8s,
           controller |-> neuron.controller,
           is_capped |-> FALSE]}

\* The maximum without the cap dictated by the function.
MaxSwapDecMutantNoFunctionCap(total, lim) ==
    u64_to_dec(total)

\* max_neurons_fund_swap_participation_icp_e8s as a Decimal (new_impl).
MaxSwapDec(total, lim) ==
    DecMin(u64_to_dec(Min(take_max_initial_neurons_fund_participation_percentage(total),
                          MAX_THEORETICAL_NEURONS_FUND_PARTICIPATION_AMOUNT_ICP_E8S)),
           SimpleLinearFunction_apply(lim.max_direct_participation_icp_e8s))

\* The intended amount without the maximum.
IntendedDecMutantUnbounded(total, direct, lim) == SimpleLinearFunction_apply(direct)

\* intended_neurons_fund_participation_icp_e8s as a Decimal (new_impl).
IntendedDec(total, direct, lim) ==
    DecMin(SimpleLinearFunction_apply(direct), MaxSwapDec(total, lim))

\* NeuronsFundParticipation::new_impl.  neurons_fund is a sequence of neurons
\* with distinct ids.  Dividing by a zero total panics inside the closure.
new_impl(total, direct, lim, neurons_fund) ==
    IF total = 0 /\ Len(neurons_fund) > 0 THEN Abort
    ELSE
    LET intended == IntendedDec(total, direct, lim)
        portions == UNION {Portion(lim, neurons_fund[k],
                               ideal_participation_amount_icp_e8s(
                                   neurons_fund[k].maturity_equivalent_icp_e8s,
                                   total, intended))
                           : k \in 1..Len(neurons_fund)}
        reserves == [id \in {p.id : p \in portions} |->
                        CHOOSE p \in portions : p.id = id]
        intended_u64 == dec_to_u64(intended)
        max_u64 == dec_to_u64(MaxSwapDec(total, lim))
    IN  IF intended_u64.tag # "Ok" THEN intended_u64
        ELSE IF max_u64.tag # "Ok" THEN max_u64
        ELSE Ok([swap_participation_limits |-> lim,
                 ideal_matched_participation_function |-> SimpleLinearFunction_serialize,
                 neurons_fund_reserves |-> reserves,
                 direct_participation_icp_e8s |-> direct,
                 total_maturity_equivalent_icp_e8s |-> total,
                 max_neurons_fund_swap_participation_icp_e8s |-> max_u64.val,
                 intended_neurons_fund_participation_icp_e8s |-> intended_u64.val])

\* NeuronsFundParticipation::new
new(lim, neurons_fund) ==
    new_impl(FoldMaturity(neurons_fund, Len(neurons_fund)),
             lim.max_direct_participation_icp_e8s, lim, neurons_fund)

\* The ids of a set, in key order (BTreeMap iteration order).
RECURSIVE SortedIds(_)
SortedIds(ids) ==
    IF ids = {} THEN <<>>
    ELSE LET id == CHOOSE i \in ids : \A k \in ids : i <= k
         IN  <<id>> \o SortedIds(ids \ {id})

\* The roster from_initial_participation rebuilds from a snapshot.
RosterOfSnapshot(neurons) ==
    LET ids == SortedIds(DOMAIN neurons)
    IN  [k \in 1..Len(ids) |->
            [id |-> ids[k],
             maturity_equivalent_icp_e8s |-> neurons[ids[k]].maturity_equivalent_icp_e8s,
             controller |-> neurons[ids[k]].controller]]

\* The total taken again from the rebuilt roster.
FinalTotalMutantRecomputed(self) ==
    FoldMaturity(RosterOfSnapshot(self.neurons_fund_reserves),
                 Cardinality(DOMAIN self.neurons_fund_reserves))

\* The total maturity from_initial_participation hands to new_impl.
FinalTotal(self) == self.total_maturity_equivalent_icp_e8s

\* NeuronsFundParticipation::from_initial_participation
from_initial_participation(self, direct) ==
    LET f == SimpleLinearFunction_new(self.ideal_matched_participation_function)
    IN  IF f.tag # "Ok" THEN f
        ELSE new_impl(FinalTotal(self), direct, self.swap_participation_limits,
                      RosterOfSnapshot(self.neurons_fund_reserves))

-----------------------------------------------------------------------------
(* Wire types (…Pb): every field is an Option, a sequence of length <= 1 *)

Some(v) == <<v>>
None == <<>>

\* impl From<NeuronsFundParticipation> for NeuronsFundParticipationPb.  The
\* portions are listed in key order.
ParticipationPb_from(participation) ==
    LET neurons == participation.neurons_fund_reserves
        ids == SortedIds(DOMAIN neurons)
    IN  [ideal_matched_participation_function |->
             Some([serialized_representation |->
                       Some(participation.ideal_matched_participation_function)]),
         neurons_fund_reserves |->
             Some([neurons_fund_neuron_portions |->
                 [k \in 1..Len(ids) |->
                     [nns_neuron_id |-> Some(neurons[ids[k]].id),
                      amount_icp_e8s |-> Some(neurons[ids[k]].amount_icp_e8s),
                      maturity_equivalent_icp_e8s |->
                          Some(neurons[ids[k]].maturity_equivalent_icp_e8s),
                      hotkey_principal |-> Some(neurons[ids[k]].controller),
                      is_capped |-> Some(neurons[ids[k]].is_capped)]]]),
         swap_participation_limits |->
             Some([min_direct_participation_icp_e8s |->
                       Some(participation.swap_participation_limits.min_direct_participation_icp_e8s),
                   max_direct_participation_icp_e8s |->
                       Some(participation.swap_participation_limits.max_direct_participation_icp_e8s),
                   min_participant_icp_e8s |->
                       Some(participation.swap_participation_limits.min_participant_icp_e8s),
                   max_participant_icp_e8s |->
                       Some(participation.swap_participation_limits.max_participant_icp_e8s)]),
         direct_participation_icp_e8s |-> Some(participation.direct_participation_icp_e8s),
         total_maturity_equivalent_icp_e8s |->
             Some(participation.total_maturity_equivalent_icp_e8s),
         max_neurons_fund_swap_participation_icp_e8s |->
             Some(participation.max_neurons_fund_swap_participation_icp_e8s),
         intended_neurons_fund_participation_icp_e8s |->
             Some(participation.intended_neurons_fund_participation_icp_e8s)]

\* NeuronsFundNeuronPortionPb::validate.  The amount/maturity comparison sits
\* in a `.map(..)` whose Result becomes the Ok value of `?` and is then
\* shadowed, so only the presence of the fields decides the outcome.
NeuronPortionPb_validate(pb) ==
    IF pb.nns_neuron_id = None THEN Err("UnspecifiedField nns_neuron_id")
    ELSE IF pb.amount_icp_e8s = None THEN Err("UnspecifiedField amount_icp_e8s")
    ELSE IF pb.maturity_equivalent_icp_e8s = None
    THEN Err("UnspecifiedField maturity_equivalent_icp_e8s")
    ELSE IF pb.hotkey_principal = None THEN Err("UnspecifiedField hotkey_principal")
    ELSE IF pb.is_capped = None THEN Err("UnspecifiedField is_capped")
    ELSE Ok([id |-> pb.nns_neuron_id[1],
             amount_icp_e8s |-> pb.amount_icp_e8s[1],
             maturity_equivalent_icp_e8s |-> pb.maturity_equivalent_icp_e8s[1],
             controller |-> pb.hotkey_principal[1],
             is_capped |-> pb.is_capped[1]])

\* impl Ord for NeuronsFundNeuronPortion: by controller, then by maturity.
\* cmp(a, b) = Equal does not imply a == b (the derived PartialEq compares
\* every field).
PortionCmpEqual(a, b) ==
    /\ a.controller = b.controller
    /\ a.maturity_equivalent_icp_e8s = b.maturity_equivalent_icp_e8s

PortionCmpLess(a, b) ==
    \/ a.controller < b.controller
    \/ /\ a.controller = b.controller
       /\ a.maturity_equivalent_icp_e8s < b.maturity_equivalent_icp_e8s

\* collect::<BTreeSet<_>>() of the portions ps (a sequence).  With an Ord that
\* disagrees with Eq the content of the set is unspecified by BTreeSet's
\* contract; the outcomes are those of the standard library's two ways of
\* building the set: element by element insertion, where a portion that
\* compares Equal to one already in the set is not added, and the bulk build
\* from the stably sorted elements, which drops only elements that are ==.
BTreeSetCollect(ps) ==
    LET idx == 1..Len(ps)
    IN  { {ps[k] : k \in {k \in idx : ~\E j \in idx : j < k /\ PortionCmpEqual(ps[j], ps[k])}},
          {ps[k] : k \in idx} }

\* NeuronsFundSnapshot::new over the set's in-order iteration: a later portion
\* of the same id replaces an earlier one.
SnapshotOfSet(set) ==
    [id \in {p.id : p \in set} |->
        CHOOSE p \in set :
            /\ p.id = id
            /\ ~\E q \in set : q.id = id /\ q # p /\ ~PortionCmpLess(q, p)]

\* NeuronsFundSnapshotPb::validate: the set of results it can return.
SnapshotPb_validate(pb) ==
    LET wire == pb.neurons_fund_neuron_portions
        res == [k \in 1..Len(wire) |-> NeuronPortionPb_validate(wire[k])]
        bad == {k \in 1..Len(wire) : res[k].tag # "Ok"}
    IN  IF bad # {}
        THEN {Err(<<CHOOSE k \in bad : \A j \in bad : k <= j, "NeuronsFundNeuronPortionError">>)}
        ELSE {Ok(SnapshotOfSet(set)) :
                 set \in BTreeSetCollect([k \in 1..Len(wire) |-> res[k].val])}

\* NeuronsFundParticipationPb::validate: the set of results it can return.
ParticipationPb_validate(pb) ==
    IF pb.ideal_matched_participation_function = None
    THEN {Err("UnspecifiedField ideal_matched_participation_function")}
    ELSE IF pb.ideal_matched_participation_function[1].serialized_representation = None
    THEN {Err("UnspecifiedField serialized_representation")}
    ELSE IF SimpleLinearFunction_new(
                pb.ideal_matched_participation_function[1].serialized_representation[1]).tag # "Ok"
    THEN {Err("MatchFunctionDeserializationFailed")}
    ELSE IF pb.neurons_fund_reserves = None
    THEN {Err("UnspecifiedField neurons_fund_reserves")}
    ELSE IF \E r \in SnapshotPb_validate(pb.neurons_fund_reserves[1]) : r.tag # "Ok"
    THEN {Err("NeuronsFundSnapshotValidationError")}
    ELSE IF pb.swap_participation_limits = None
    THEN {Err("UnspecifiedField swap_participation_limits")}
    ELSE IF \E f \in DOMAIN pb.swap_participation_limits[1] :
                pb.swap_participation_limits[1][f] = None
    THEN {Err("UnspecifiedField swap_participation_limits.*")}
    ELSE IF \/ pb.direct_participation_icp_e8s = None
            \/ pb.total_maturity_equivalent_icp_e8s = None
            \/ pb.max_neurons_fund_swap_participation_icp_e8s = None
            \/ pb.intended_neurons_fund_participation_icp_e8s = None
    THEN {Err("UnspecifiedField")}
    ELSE {Ok([swap_participation_limits |->
                  [f \in DOMAIN pb.swap_participation_limits[1] |->
                      pb.swap_participation_limits[1][f][1]],
              ideal_matched_participation_function |-> SimpleLinearFunction_serialize,
              neurons_fund_reserves |-> r.val,
              direct_participation_icp_e8s |-> pb.direct_participation_icp_e8s[1],
              total_maturity_equivalent_icp_e8s |-> pb.total_maturity_equivalent_icp_e8s[1],
              max_neurons_fund_swap_participation_icp_e8s |->
                  pb.max_neurons_fund_swap_participation_icp_e8s[1],
              intended_neurons_fund_participation_icp_e8s |->
                  pb.intended_neurons_fund_participation_icp_e8s[1]])
          : r \in SnapshotPb_validate(pb.neurons_fund_reserves[1])}

-----------------------------------------------------------------------------
(* Interval and IntervalPartition::find_interval *)

\* Interval::from and Interval::to of a ValidatedLinearScalingCoefficient
IntervalFrom(cell) == cell.from_direct_participation_icp_e8s
IntervalTo(cell) == cell.to_direct_participation_icp_e8s

\* Interval::contains
contains(cell, x) == IntervalFrom(cell) <= x /\ x < IntervalTo(cell)

\* `as u32`, with u32 scaled to 8 bits.
AsU32(i) == i % 2^8

\* The probe that moves right when x is at or past the cell's upper bound.
MovesRightMutantStrict(cell, x) == IntervalTo(cell) < x

MovesRight(cell, x) == IntervalTo(cell) <= x

\* The `while i <= j` loop; i, j and m index from 0 as in the source.
RECURSIVE FindLoop(_, _, _, _)
FindLoop(cells, x, i, j) ==
    IF ~(i <= j) THEN None
    ELSE LET m == (AsU32(i) + AsU32(j)) \div 2
         IN  IF MovesRight(cells[m + 1], x) THEN FindLoop(cells, x, m + 1, j)
             ELSE IF x < IntervalFrom(cells[m + 1])
                  THEN IF m = 0 THEN None ELSE FindLoop(cells, x, i, m - 1)
                  ELSE Some(m)

\* IntervalPartition::find_interval: Some(index of the cell) or None.
find_interval(cells, x) ==
    IF Len(cells) = 0 THEN None ELSE FindLoop(cells, x, 0, Len(cells) - 1)

-----------------------------------------------------------------------------
(* Participation constraints and MatchedParticipationFunction *)

\* MAX_LINEAR_SCALING_COEFFICIENT_VEC_LEN = 100_000, scaled.
MAX_LINEAR_SCALING_COEFFICIENT_VEC_LEN == 2

\* Decimal::MAX, scaled: the largest whole number a Decimal holds.
DECIMAL_MAX == 10000 * DecScale

\* Decimal::saturating_add and Decimal::saturating_mul (non-negative operands)
dec_saturating_add(a, b) == Min(a + b, DECIMAL_MAX)
dec_saturating_mul(a, b) == Min(DecMul(a, b), DECIMAL_MAX)

\* ValidatedLinearScalingCoefficient::try_from(LinearScalingCoefficient)
LinearScalingCoefficient_try_from(value) ==
    IF value.from_direct_participation_icp_e8s = None
    THEN Err("UnspecifiedField(from_direct_participation_icp_e8s)")
    ELSE IF value.to_direct_participation_icp_e8s = None
    THEN Err("UnspecifiedField(to_direct_participation_icp_e8s)")
    ELSE IF value.slope_numerator = None
    THEN Err("UnspecifiedField(slope_numerator)")
    ELSE IF value.slope_denominator = None
    THEN Err("UnspecifiedField(slope_denominator)")
    ELSE IF value.intercept_icp_e8s = None
    THEN Err("UnspecifiedField(intercept_icp_e8s)")
    ELSE LET from == value.from_direct_participation_icp_e8s[1]
             to == value.to_direct_participation_icp_e8s[1]
             num == value.slope_numerator[1]
             den == value.slope_denominator[1]
         IN  IF to <= from THEN Err("EmptyInterval")
             ELSE IF den = 0 THEN Err("DenominatorIsZero")
             ELSE IF num > den THEN Err("NumeratorGreaterThanDenominator")
             ELSE Ok([from_direct_participation_icp_e8s |-> from,
                      to_direct_participation_icp_e8s |-> to,
                      slope_numerator |-> num,
                      slope_denominator |-> den,
                      intercept_icp_e8s |-> value.intercept_icp_e8s[1]])

\* try_from with a length check that lets one more interval through.
Constraints_try_fromMutantLongList(value) ==
    IF value.min_direct_participation_threshold_icp_e8s = None
    THEN Err("RelatedFieldUnspecified(min_direct_participation_threshold_icp_e8s)")
    ELSE IF value.max_neurons_fund_participation_icp_e8s = None
    THEN Err("RelatedFieldUnspecified(max_neurons_fund_participation_icp_e8s)")
    ELSE LET ws == value.coefficient_intervals
             n == Len(ws)
         IN  IF ~(1 <= n /\ n <= MAX_LINEAR_SCALING_COEFFICIENT_VEC_LEN + 1)
             THEN Err("LinearScalingCoefficientsOutOfRange")
             ELSE LET res == [k \in 1..n |-> LinearScalingCoefficient_try_from(ws[k])]
                      bad == {k \in 1..n : res[k].tag # "Ok"}
                      cells == [k \in 1..n |-> res[k].val]
                  IN  IF bad # {}
                      THEN Err(res[CHOOSE k \in bad : \A l \in bad : k <= l].val)
                      ELSE IF \E k \in 1..(n - 1) :
                                 IntervalTo(cells[k]) # IntervalFrom(cells[k + 1])
                      THEN Err("LinearScalingCoefficientsUnordered")
                      ELSE IF IntervalFrom(cells[1]) # 0
                      THEN Err("IrregularLinearScalingCoefficients")
                      ELSE Ok([min_direct_participation_threshold_icp_e8s |->
                                   value.min_direct_participation_threshold_icp_e8s[1],
                               max_neurons_fund_participation_icp_e8s |->
                                   value.max_neurons_fund_participation_icp_e8s[1],
                               coefficient_intervals |-> cells])

\* ValidatedNeuronsFundParticipationConstraints::try_from
Constraints_try_from(value) ==
    IF value.min_direct_participation_threshold_icp_e8s = None
    THEN Err("RelatedFieldUnspecified(min_direct_participation_threshold_icp_e8s)")
    ELSE IF value.max_neurons_fund_participation_icp_e8s = None
    THEN Err("RelatedFieldUnspecified(max_neurons_fund_participation_icp_e8s)")
    ELSE LET ws == value.coefficient_intervals
             n == Len(ws)
         IN  IF ~(1 <= n /\ n < MAX_LINEAR_SCALING_COEFFICIENT_VEC_LEN + 1)
             THEN Err("LinearScalingCoefficientsOutOfRange")
             ELSE LET res == [k \in 1..n |-> LinearScalingCoefficient_try_from(ws[k])]
                      bad == {k \in 1..n : res[k].tag # "Ok"}
                      cells == [k \in 1..n |-> res[k].val]
                  IN  IF bad # {}
                      THEN Err(res[CHOOSE k \in bad : \A l \in bad : k <= l].val)
                      ELSE IF \E k \in 1..(n - 1) :
                                 IntervalTo(cells[k]) # IntervalFrom(cells[k + 1])
                      THEN Err("LinearScalingCoefficientsUnordered")
                      ELSE IF IntervalFrom(cells[1]) # 0
                      THEN Err("IrregularLinearScalingCoefficients")
                      ELSE Ok([min_direct_participation_threshold_icp_e8s |->
                                   value.min_direct_participation_threshold_icp_e8s[1],
                               max_neurons_fund_participation_icp_e8s |->
                                   value.max_neurons_fund_participation_icp_e8s[1],
                               coefficient_intervals |-> cells])

\* The cap without the theoretical maximum.
HardCapMutantOwnMaximum(p) == u64_to_dec(p.max_neurons_fund_participation_icp_e8s)

\* impl From<ValidatedLinearScalingCoefficient> for LinearScalingCoefficient
LinearScalingCoefficient_from(value) ==
    [from_direct_participation_icp_e8s |-> Some(value.from_direct_participation_icp_e8s),
     to_direct_participation_icp_e8s |-> Some(value.to_direct_participation_icp_e8s),
     slope_numerator |-> Some(value.slope_numerator),
     slope_denominator |-> Some(value.slope_denominator),
     intercept_icp_e8s |-> Some(value.intercept_icp_e8s)]

\* impl From<ValidatedNeuronsFundParticipationConstraints> for
\* NeuronsFundParticipationConstraints.  Both top-level fields are written
\* from value.min_direct_participation_threshold_icp_e8s.
Constraints_from(value) ==
    [min_direct_participation_threshold_icp_e8s |->
         Some(value.min_direct_participation_threshold_icp_e8s),
     max_neurons_fund_participation_icp_e8s |->
         Some(value.min_direct_participation_threshold_icp_e8s),
     coefficient_intervals |->
         [k \in 1..Len(value.coefficient_intervals) |->
             LinearScalingCoefficient_from(value.coefficient_intervals[k])]]

\* hard_cap of MatchedParticipationFunction::apply
HardCap(p) ==
    u64_to_dec(Min(p.max_neurons_fund_participation_icp_e8s,
                   MAX_THEORETICAL_NEURONS_FUND_PARTICIPATION_AMOUNT_ICP_E8S))

\* The in-interval value without the cap.
EffectiveMutantUncapped(hard_cap, cell, ideal) ==
    dec_saturating_add(u64_to_dec(cell.intercept_icp_e8s),
        dec_saturating_mul(DecDiv(u64_to_dec(cell.slope_numerator),
                                  u64_to_dec(cell.slope_denominator)), ideal))

\* `effective` of MatchedParticipationFunction::apply
Effective(hard_cap, cell, ideal) ==
    DecMin(hard_cap,
        dec_saturating_add(u64_to_dec(cell.intercept_icp_e8s),
            dec_saturating_mul(DecDiv(u64_to_dec(cell.slope_numerator),
                                      u64_to_dec(cell.slope_denominator)), ideal)))

\* apply(d) with the last interval's upper bound still inside the interval.
MatchedApplyMutantClosedLast(p, ideal, d) ==
    LET cells == p.coefficient_intervals
    IN  IF d < p.min_direct_participation_threshold_icp_e8s THEN Ok(0)
        ELSE IF Len(cells) = 0 THEN Abort
        ELSE IF d < IntervalFrom(cells[1]) THEN Ok(0)
        ELSE IF IntervalTo(cells[Len(cells)]) < d THEN Ok(HardCap(p))
        ELSE LET hit == find_interval(cells, d)
             IN  IF hit # None
                 THEN Ok(Effective(HardCap(p), cells[hit[1] + 1], ideal))
                 ELSE Abort

\* MatchedParticipationFunction::apply(d), where ideal is the value that
\* self.function returns for d.  The result is Ok(Decimal), or Abort when the
\* call panics.
MatchedApply(p, ideal, d) ==
    LET cells == p.coefficient_intervals
    IN  IF d < p.min_direct_participation_threshold_icp_e8s THEN Ok(0)
        ELSE IF Len(cells) = 0 THEN Abort
        ELSE IF d < IntervalFrom(cells[1]) THEN Ok(0)
        ELSE IF IntervalTo(cells[Len(cells)]) <= d THEN Ok(HardCap(p))
        ELSE LET hit == find_interval(cells, d)
             IN  IF hit # None
                 THEN Ok(Effective(HardCap(p), cells[hit[1] + 1], ideal))
                 ELSE Abort

-----------------------------------------------------------------------------
(* InvertibleFunction: apply and invert_with_tracing *)

\* An implementor of InvertibleFunction: x * slope + intercept as the tests'
\* LinearFunction, raised by `jump` from each point of `steps` on, and with
\* the value at one point replaced when `bump` is Some((x, y)).  The bumped
\* ones are the functions that are not monotone.
apply(f, arg) ==
    IF f.bump # None /\ f.bump[1][1] = arg THEN f.bump[1][2]
    ELSE arg * f.slope + f.intercept
             + f.jump * Cardinality({t \in f.steps : t <= arg})

\* The step that follows `y < target_y`, skipping one point.
RaiseLeftMutantSkips(probe) == probe + 2

\* The step that follows `y < target_y`, keeping the probed point.
RaiseLeftMutantStays(probe) == probe

\* left = (x as u128) + 1
RaiseLeft(probe) == probe + 1

\* The step that follows `y > target_y`, keeping the probed point.
LowerRightMutantStays(probe) == probe

\* right = (x as u128) - 1
LowerRight(probe) == probe - 1

\* The comparison turned around.
CmpMutantReversed(value, target) ==
    IF value = target THEN "Equal" ELSE IF value < target THEN "Greater" ELSE "Less"

\* Never an exact hit: Equal is taken for Less.
CmpMutantNeverEqual(value, target) == IF value <= target THEN "Less" ELSE "Greater"

\* y.cmp(&target_y)
Cmp(value, target) ==
    IF value = target THEN "Equal" ELSE IF value < target THEN "Less" ELSE "Greater"

\* |d| of a Decimal
DecAbs(d) == IF d < 0 THEN 0 - d ELSE d

\* The locals of invert_with_tracing before the loop.
SearchStart(f) ==
    [left |-> 0,
     right |-> U64_MAX,
     x |-> (0 + U64_MAX) \div 2,
     y |-> apply(f, (0 + U64_MAX) \div 2),
     prev_coords |-> None,
     trace |-> <<>>]

-----------------------------------------------------------------------------
(* NeuronsFundAction and apply_neurons_fund_snapshot *)

\* checked_sub / checked_add that wrap around instead of failing.
checked_applyMutantWrapping(action, left, right) ==
    IF action = "DrawMaturity" THEN Ok((left - right) % (U64_MAX + 1))
    ELSE Ok((left + right) % (U64_MAX + 1))

\* A refund that draws.
checked_applyMutantAlwaysDraws(action, left, right) ==
    IF left >= right THEN Ok(left - right) ELSE Err("drawing")

\* NeuronsFundAction::checked_apply
checked_apply(action, left, right) ==
    IF action = "DrawMaturity"
    THEN IF left >= right THEN Ok(left - right) ELSE Err("drawing")
    ELSE IF left + right <= U64_MAX THEN Ok(left + right) ELSE Err("refunding")

\* The loop of apply_neurons_fund_snapshot over the ids still to visit, in
\* the order of the snapshot's BTreeMap.  store maps the ids of the neurons
\* in the NeuronStore to their maturity_e8s_equivalent; with_neuron_mut fails
\* for an id that is not in the store.  errors is neurons_fund_action_error.
RECURSIVE ApplyLoop(_, _, _, _, _)
ApplyLoop(store, snapshot, action, ids, errors) ==
    IF ids = {} THEN [store |-> store, errors |-> errors]
    ELSE LET neuron_id == CHOOSE i \in ids : \A k \in ids : i <= k
             rest == ids \ {neuron_id}
         IN  IF neuron_id \notin DOMAIN store
             THEN ApplyLoop(store, snapshot, action, rest,
                            Append(errors, <<neuron_id, "neuron not found">>))
             ELSE LET applied == checked_apply(action, store[neuron_id],
                                               snapshot[neuron_id].amount_icp_e8s)
                  IN  IF applied.tag = "Ok"
                      THEN ApplyLoop([store EXCEPT ![neuron_id] = applied.val],
                                     snapshot, action, rest, errors)
                      ELSE ApplyLoop(store, snapshot, action, rest,
                                     Append(errors, <<neuron_id, applied.val>>))

\* apply_neurons_fund_snapshot: the store after the call and its Result.
apply_neurons_fund_snapshot(store, snapshot, action) ==
    LET done == ApplyLoop(store, snapshot, action, DOMAIN snapshot, <<>>)
    IN  [store |-> done.store,
         result |-> IF done.errors = <<>> THEN Ok("unit") ELSE Err(done.errors)]

-----------------------------------------------------------------------------
(* MatchedParticipationFunction: try_from, then calls of apply *)

\* (slope_numerator, slope_denominator, intercept_icp_e8s) of a cell
Coeffs == {<<1, 1, 0>>, <<1, 2, 3>>, <<0, 1, 0>>}
ThresholdVals == {0, 2}
MaxParticipationVals == {2, 1000}
\* Values of the ideal function, as whole numbers.
IdealVals == {0, 2, 400, 9999}

WireCell(from, to, c) ==
    [from_direct_participation_icp_e8s |-> Some(from),
     to_direct_participation_icp_e8s |-> Some(to),
     slope_numerator |-> Some(c[1]),
     slope_denominator |-> Some(c[2]),
     intercept_icp_e8s |-> Some(c[3])]

\* The increasing enumeration of a set of numbers.
RECURSIVE SortedSeq(_)
SortedSeq(S) ==
    IF S = {} THEN <<>>
    ELSE LET lo == CHOOSE a \in S : \A b \in S : a <= b
         IN  <<lo>> \o SortedSeq(S \ {lo})

\* Contiguous cells [0, b1), [b1, b2), ... with the given upper bounds.
WireCells(bs, cs) ==
    [k \in 1..Len(bs) |-> WireCell(IF k = 1 THEN 0 ELSE bs[k - 1], bs[k], cs[k])]

WireCellLists ==
    UNION {{WireCells(SortedSeq(B), cs) : cs \in [1..Cardinality(B) -> Coeffs]} :
           B \in {B \in SUBSET (1..MaxBoundary) :
                     Cardinality(B) <= MAX_LINEAR_SCALING_COEFFICIENT_VEC_LEN + 1}}

Defects == {"none", "no_threshold", "no_max", "no_from", "no_to", "no_numerator",
            "no_denominator", "no_intercept", "empty", "zero_denominator",
            "steep", "shifted"}

\* A wire value with one field of its last cell (or of itself) spoilt.
Spoil(w, defect) ==
    LET ws == w.coefficient_intervals
        n == Len(ws)
        last == ws[n]
        SetLast(c) == [w EXCEPT !.coefficient_intervals = [ws EXCEPT ![n] = c]]
    IN  IF defect = "none" THEN w
        ELSE IF defect = "no_threshold"
        THEN [w EXCEPT !.min_direct_participation_threshold_icp_e8s = None]
        ELSE IF defect = "no_max"
        THEN [w EXCEPT !.max_neurons_fund_participation_icp_e8s = None]
        ELSE IF n = 0 THEN w
        ELSE IF defect = "no_from"
        THEN SetLast([last EXCEPT !.from_direct_participation_icp_e8s = None])
        ELSE IF defect = "no_to"
        THEN SetLast([last EXCEPT !.to_direct_participation_icp_e8s = None])
        ELSE IF defect = "no_numerator"
        THEN SetLast([last EXCEPT !.slope_numerator = None])
        ELSE IF defect = "no_denominator"
        THEN SetLast([last EXCEPT !.slope_denominator = None])
        ELSE IF defect = "no_intercept"
        THEN SetLast([last EXCEPT !.intercept_icp_e8s = None])
        ELSE IF defect = "empty"
        THEN SetLast([last EXCEPT !.to_direct_participation_icp_e8s =
                                      last.from_direct_participation_icp_e8s])
        ELSE IF defect = "zero_denominator"
        THEN SetLast([last EXCEPT !.slope_denominator = Some(0)])
        ELSE IF defect = "steep"
        THEN SetLast([last EXCEPT !.slope_numerator =
                                      Some(last.slope_denominator[1] + 1)])
        ELSE SetLast([last EXCEPT
                 !.from_direct_participation_icp_e8s =
                     Some(last.from_direct_participation_icp_e8s[1] + 1),
                 !.to_direct_participation_icp_e8s =
                     Some(last.to_direct_participation_icp_e8s[1] + 1)])

Wires ==
    {Spoil([min_direct_participation_threshold_icp_e8s |-> Some(t),
            max_neurons_fund_participation_icp_e8s |-> Some(m),
            coefficient_intervals |-> ws], defect) :
        t \in ThresholdVals, m \in MaxParticipationVals,
        ws \in WireCellLists, defect \in Defects}

InitMatched ==
    /\ mpc = "wire"
    /\ constraints = <<>>
    /\ params = NoResult
    /\ calls = <<>>
    /\ echoed = NoResult

\* ValidatedNeuronsFundParticipationConstraints::try_from(constraints), and
\* MatchedParticipationFunction::new over the validated value.
TryFrom ==
    /\ mpc = "wire"
    /\ \E w \in Wires :
         /\ constraints' = w
         /\ params' = Constraints_try_from(w)
         /\ mpc' = IF Constraints_try_from(w).tag = "Ok" THEN "built" ELSE "rejected"
    /\ UNCHANGED <<calls, echoed>>
    /\ UNCHANGED exceptMatchVars

\* A call of apply(d).  The boxed function is any closure: its value at d is
\* chosen here, the same for the same d.  Two calls are what a comparison of
\* two inputs needs.
Apply ==
    /\ mpc = "built"
    /\ Len(calls) < 2
    /\ \E d \in 0..MaxBoundary, v \in IdealVals :
         /\ \A k \in 1..Len(calls) : calls[k].d = d => calls[k].ideal = u64_to_dec(v)
         /\ calls' = Append(calls, [d |-> d, ideal |-> u64_to_dec(v),
                                    out |-> MatchedApply(params.val, u64_to_dec(v), d)])
    /\ UNCHANGED <<mpc, constraints, params, echoed>>
    /\ UNCHANGED exceptMatchVars

\* The validated constraints converted to the wire type and validated again.
ToWire ==
    /\ mpc = "built"
    /\ calls = <<>>
    /\ echoed' = Constraints_try_from(Constraints_from(params.val))
    /\ mpc' = "echoed"
    /\ UNCHANGED <<constraints, params, calls>>
    /\ UNCHANGED exceptMatchVars

NextMatched == TryFrom \/ Apply \/ ToWire

-----------------------------------------------------------------------------
(* IntervalPartition::find_interval over any ordered list of disjoint cells *)

Cell(from, to) ==
    [from_direct_participation_icp_e8s |-> from, to_direct_participation_icp_e8s |-> to]

\* Cells [from, to) over the keys; to = U64_MAX is a cell without upper bound.
Cells ==
    {c \in {Cell(a, b) : a \in 0..MaxKey, b \in (1..MaxKey) \cup {U64_MAX}} :
        IntervalFrom(c) < IntervalTo(c)}

\* Lists of cells that are ordered and pairwise disjoint; gaps are allowed.
Partitions ==
    UNION {{cs \in [1..n -> Cells] :
               \A k \in 1..(n - 1) : IntervalTo(cs[k]) <= IntervalFrom(cs[k + 1])} :
           n \in 0..MaxCells}

Keys == (0..MaxKey) \cup {U64_MAX}

InitFind ==
    /\ fpc = "idle"
    /\ intervals = <<>>
    /\ key = 0
    /\ found = None

\* find_interval(x) on a partition
FindInterval ==
    /\ fpc = "idle"
    /\ \E cs \in Partitions, x \in Keys :
         /\ intervals' = cs
         /\ key' = x
         /\ found' = find_interval(cs, x)
    /\ fpc' = "done"
    /\ UNCHANGED exceptFindVars

NextFind == FindInterval

-----------------------------------------------------------------------------
(* invert_with_tracing, one loop iteration per step *)

\* Arguments where the functions step or are bumped, and from which targets
\* are taken.
Points == {0, 1, 2, 32767, 32768, U64_MAX}
Slopes == {0, 50, 100}
Intercepts == {0 - 100, 0}
JumpHeight == 5 * (DecScale \div 2)
BumpVals == {0, 70000 * DecScale}

InvertibleFunctions ==
    {[slope |-> s, intercept |-> c, jump |-> JumpHeight, steps |-> T, bump |-> b] :
        s \in Slopes, c \in Intercepts,
        T \in {T \in SUBSET Points : Cardinality(T) <= MaxSteps},
        b \in {None} \cup {Some(<<p, v>>) : p \in {0, 16383, 32768}, v \in BumpVals}}

\* Targets in and next to the image of f, on both sides.
Targets(f) ==
    {apply(f, p) + e : p \in Points, e \in {0 - DecScale \div 2, 0, DecScale \div 2}}

InitInvert ==
    /\ ipc = "idle"
    /\ fn = <<>>
    /\ target_y = 0
    /\ search = <<>>
    /\ result = NoResult

\* Entry of invert_with_tracing(target_y) up to the head of the loop.
InvertCall ==
    /\ ipc = "idle"
    /\ \E f \in InvertibleFunctions :
         \E t \in Targets(f) :
            /\ fn' = f
            /\ target_y' = t
            /\ IF t < 0
               THEN /\ search' = [trace |-> <<>>]
                    /\ result' = Err("Cannot invert negative value")
                    /\ ipc' = "error"
               ELSE /\ search' = SearchStart(f)
                    /\ result' = NoResult
                    /\ ipc' = "loop"
    /\ UNCHANGED exceptInvertVars

\* One iteration of `while left <= right`.
InvertIter ==
    /\ ipc = "loop"
    /\ search.left <= search.right
    /\ LET x1 == (search.left + search.right) \div 2
           y1 == apply(fn, x1)
           pushed == Append(search.trace,
                            [left |-> search.left, x |-> x1,
                             right |-> search.right, y |-> y1])
           probed == [search EXCEPT !.x = x1, !.y = y1, !.trace = pushed]
           kept == [probed EXCEPT !.prev_coords = Some(<<x1, y1>>)]
           x0 == search.prev_coords[1][1]
           y0 == search.prev_coords[1][2]
       IN  IF search.prev_coords # None /\ x1 = x0
           THEN /\ search' = probed
                /\ result' = Abort
                /\ ipc' = "panic"
           ELSE IF /\ search.prev_coords # None
                   /\ ((x1 > x0 /\ y1 < y0) \/ (x1 < x0 /\ y1 > y0))
           THEN /\ search' = probed
                /\ result' = Err("not monotonically increasing")
                /\ ipc' = "error"
           ELSE IF Cmp(y1, target_y) = "Equal"
           THEN /\ search' = kept
                /\ result' = Ok(x1)
                /\ ipc' = "exact"
           ELSE IF Cmp(y1, target_y) = "Less"
           THEN /\ search' = [kept EXCEPT !.left = RaiseLeft(x1)]
                /\ UNCHANGED <<result, ipc>>
           ELSE IF x1 = 0
           THEN /\ search' = kept
                /\ result' = Err("Cannot invert small value")
                /\ ipc' = "error"
           ELSE /\ search' = [kept EXCEPT !.right = LowerRight(x1)]
                /\ UNCHANGED <<result, ipc>>
    /\ UNCHANGED <<fn, target_y>>
    /\ UNCHANGED exceptInvertVars

\* After the loop: the best of (x, y) and prev_coords.
InvertBestEffort ==
    /\ ipc = "loop"
    /\ ~(search.left <= search.right)
    /\ IF search.prev_coords # None
       THEN LET x0 == search.prev_coords[1][1]
                y0 == search.prev_coords[1][2]
            IN  IF DecAbs(target_y - search.y) < DecAbs(target_y - y0)
                THEN /\ search' = search
                     /\ result' = Ok(search.x)
                     /\ ipc' = "best_effort"
                ELSE /\ search' = [search EXCEPT
                                      !.trace = SubSeq(search.trace, 1,
                                                       Len(search.trace) - 1)]
                     /\ result' = Ok(x0)
                     /\ ipc' = "best_effort"
       ELSE /\ search' = search
            /\ result' = Abort
            /\ ipc' = "panic"
    /\ UNCHANGED <<fn, target_y>>
    /\ UNCHANGED exceptInvertVars

NextInvert == InvertCall \/ InvertIter \/ InvertBestEffort

-----------------------------------------------------------------------------
(* NeuronStore: draw_maturity_from_neurons_fund, refund_maturity_to_neurons_fund *)

StoreIds == 1..MaxStoreNeurons
StoreMaturityVals == {0, 4, U64_MAX}
DeltaVals == {0, 3, 5}

\* Maps from some of the ids to a value.
PartialMaps(ids, vals) == UNION {[S -> vals] : S \in SUBSET ids}

Stores == PartialMaps(StoreIds, StoreMaturityVals)

SnapshotOfAmounts(amounts) ==
    [id \in DOMAIN amounts |->
        [id |-> id,
         amount_icp_e8s |-> amounts[id],
         maturity_equivalent_icp_e8s |-> amounts[id],
         controller |-> 1,
         is_capped |-> FALSE]]

Snapshots == {SnapshotOfAmounts(a) : a \in PartialMaps(StoreIds, DeltaVals)}

InitStore ==
    /\ spc = "empty"
    /\ neuron_store = <<>>
    /\ mutation = NoResult

\* The NeuronStore is filled with Neurons' Fund neurons.
Populate ==
    /\ spc = "empty"
    /\ neuron_store' \in Stores
    /\ spc' = "ready"
    /\ UNCHANGED mutation
    /\ UNCHANGED exceptStoreVars

Mutate(action) ==
    /\ spc = "ready"
    /\ \E snapshot \in Snapshots :
         LET call == apply_neurons_fund_snapshot(neuron_store, snapshot, action)
         IN  /\ neuron_store' = call.store
             /\ mutation' = [action |-> action, snapshot |-> snapshot,
                             before |-> neuron_store, result |-> call.result]
    /\ spc' = "mutated"
    /\ UNCHANGED exceptStoreVars

\* NeuronStore::draw_maturity_from_neurons_fund(snapshot)
DrawMaturity == Mutate("DrawMaturity")

\* NeuronStore::refund_maturity_to_neurons_fund(snapshot)
RefundMaturity == Mutate("RefundMaturity")

NextStore == Populate \/ DrawMaturity \/ RefundMaturity

-----------------------------------------------------------------------------
(* NeuronsFundSnapshot::diff over any two snapshots *)

DiffIds == 1..MaxDiffNeurons

\* Portions of self: (amount, is_capped); maturity 5, controller 1.
LeftPortions(id) ==
    {[id |-> id, amount_icp_e8s |-> a, maturity_equivalent_icp_e8s |-> 5,
      controller |-> 1, is_capped |-> c] : a \in {2, 5}, c \in BOOLEAN}

\* Portions of other: as those of self, or with another maturity, or with
\* another controller.
RightPortions(id) ==
    {[id |-> id, amount_icp_e8s |-> a, maturity_equivalent_icp_e8s |-> mc[1],
      controller |-> mc[2], is_capped |-> c] :
        a \in {2, 5}, c \in BOOLEAN, mc \in {<<5, 1>>, <<9, 1>>, <<5, 2>>}}

\* The snapshots that hold, for some of the ids, one of the id's portions.
SnapshotsOver(ids, side) ==
    {s \in UNION {[S -> UNION {IF side = "self" THEN LeftPortions(id)
                                ELSE RightPortions(id) : id \in S}] :
                      S \in SUBSET ids} :
        \A id \in DOMAIN s : s[id].id = id}

\* Wire portions: every field present or not, amounts below, at and above
\* the maturity.
PortionAmountVals == {0, 1, 5}
WirePortions ==
    [nns_neuron_id : {None, Some(1)},
     amount_icp_e8s : {None} \cup {Some(a) : a \in PortionAmountVals},
     maturity_equivalent_icp_e8s : {None} \cup {Some(a) : a \in PortionAmountVals},
     hotkey_principal : {None, Some(1)},
     is_capped : {None, Some(FALSE), Some(TRUE)}]

InitPortion ==
    /\ vpc = "idle"
    /\ wire_portion = <<>>
    /\ checked_portion = NoResult

\* wire_portion.validate()
ValidatePortion ==
    /\ vpc = "idle"
    /\ \E w \in WirePortions :
         /\ wire_portion' = w
         /\ checked_portion' = NeuronPortionPb_validate(w)
    /\ vpc' = "done"
    /\ UNCHANGED exceptPortionVars

NextPortion == ValidatePortion

InitDiff ==
    /\ dpc = "idle"
    /\ minuend = <<>>
    /\ subtrahend = <<>>
    /\ difference = NoResult

\* self.diff(other)
Diff ==
    /\ dpc = "idle"
    /\ \E self \in SnapshotsOver(DiffIds, "self"),
          other \in SnapshotsOver(DiffIds, "other") :
         /\ minuend' = self
         /\ subtrahend' = other
         /\ difference' = diff(self, other)
    /\ dpc' = "done"
    /\ UNCHANGED exceptDiffVars

NextDiff == Diff

-----------------------------------------------------------------------------
(* Lifecycle: new -> from_initial_participation -> diff *)

\* NeuronsFundParticipation::compute_constraints: one interval
\* [0, max_neurons_fund_swap_participation_icp_e8s) with slope 1/1 and
\* intercept 0, converted to the wire type.
compute_constraints(self) ==
    Ok([min_direct_participation_threshold_icp_e8s |->
            Some(self.swap_participation_limits.min_direct_participation_icp_e8s),
        max_neurons_fund_participation_icp_e8s |->
            Some(self.max_neurons_fund_swap_participation_icp_e8s),
        coefficient_intervals |->
            <<WireCell(0, self.max_neurons_fund_swap_participation_icp_e8s,
                       <<1, 1, 0>>)>>])

MaturityVals == {0, 15, 30000, U64_MAX}
Controllers == {1, 2}
Neurons(n) ==
    {r \in [1..n -> [id : 1..n, maturity_equivalent_icp_e8s : MaturityVals,
                     controller : Controllers]] : \A k \in 1..n : r[k].id = k}
Rosters == UNION {Neurons(n) : n \in 0..MaxNeurons}
Limits ==
    [min_direct_participation_icp_e8s : {1},
     max_direct_participation_icp_e8s : {4, U64_MAX},
     min_participant_icp_e8s : {1, 2},
     max_participant_icp_e8s : {2, U64_MAX}]
DirectVals == (0..MaxDirect) \cup {U64_MAX}

InitLifecycle ==
    /\ pc = "new"
    /\ limits = NoResult
    /\ roster = <<>>
    /\ initial = NoResult
    /\ final_direct = 0
    /\ final = NoResult
    /\ refund = NoResult
    /\ validated = NoResult
    /\ received = <<>>
    /\ offered = NoResult

-----------------------------------------------------------------------------
(* A swap: reserve at the maximum, draw, finalize at the realized direct
   participation, refund the difference *)

\* The id and the maturity of a Neurons' Fund neuron that is in the store but
\* not in the roster.
BystanderId == 0
BystanderMaturity == 7

\* The store when the swap opens: every roster neuron holds its
\* maturity_equivalent_icp_e8s.
StoreOfRoster(neurons_fund) ==
    [id \in {neurons_fund[k].id : k \in 1..Len(neurons_fund)} \cup {BystanderId} |->
        IF id = BystanderId THEN BystanderMaturity
        ELSE LET k == CHOOSE j \in 1..Len(neurons_fund) : neurons_fund[j].id = id
             IN  neurons_fund[k].maturity_equivalent_icp_e8s]

InitSwap ==
    /\ swap_pc = "new"
    /\ swap_state = <<>>
    /\ fund_store = <<>>
    /\ apply_results = <<>>

\* NeuronsFundParticipation::new at max_direct_participation.
OpenSwap ==
    /\ swap_pc = "new"
    /\ \E lim \in Limits, r \in Rosters :
         /\ swap_state' = [limits |-> lim, roster |-> r, initial |-> new(lim, r),
                           d |-> lim.max_direct_participation_icp_e8s,
                           final |-> NoResult, refund |-> NoResult]
         /\ fund_store' = StoreOfRoster(r)
         /\ swap_pc' = IF new(lim, r).tag = "Ok" THEN "reserved" ELSE "new_failed"
    /\ UNCHANGED apply_results
    /\ UNCHANGED exceptSwapVars

\* draw_maturity_from_neurons_fund(initial.snapshot())
DrawSwap ==
    /\ swap_pc = "reserved"
    /\ LET done == apply_neurons_fund_snapshot(
                      fund_store, swap_state.initial.val.neurons_fund_reserves,
                      "DrawMaturity")
       IN  /\ fund_store' = done.store
           /\ apply_results' = Append(apply_results, done.result)
           /\ swap_pc' = IF done.result.tag = "Ok" THEN "drawn" ELSE "draw_failed"
    /\ UNCHANGED swap_state
    /\ UNCHANGED exceptSwapVars

\* initial.from_initial_participation(d)
FinalizeSwap ==
    /\ swap_pc = "drawn"
    /\ \E d \in DirectVals :
         LET done == from_initial_participation(swap_state.initial.val, d)
         IN  /\ swap_state' = [swap_state EXCEPT !.d = d, !.final = done]
             /\ swap_pc' = IF done.tag = "Ok" THEN "finalized" ELSE "finalize_failed"
    /\ UNCHANGED <<fund_store, apply_results>>
    /\ UNCHANGED exceptSwapVars

\* refund_maturity_to_neurons_fund(initial.snapshot().diff(final.snapshot()))
SettleSwap ==
    /\ swap_pc = "finalized"
    /\ LET refunded == diff(swap_state.initial.val.neurons_fund_reserves,
                            swap_state.final.val.neurons_fund_reserves)
       IN  /\ swap_state' = [swap_state EXCEPT !.refund = refunded]
           /\ IF refunded.tag # "Ok"
              THEN /\ swap_pc' = "diff_failed"
                   /\ UNCHANGED <<fund_store, apply_results>>
              ELSE LET done == apply_neurons_fund_snapshot(
                                   fund_store, refunded.val, "RefundMaturity")
                   IN  /\ fund_store' = done.store
                       /\ apply_results' = Append(apply_results, done.result)
                       /\ swap_pc' = IF done.result.tag = "Ok" THEN "settled"
                                     ELSE "refund_failed"
    /\ UNCHANGED exceptSwapVars

NextSwap == OpenSwap \/ DrawSwap \/ FinalizeSwap \/ SettleSwap

Init ==
    /\ InitLifecycle
    /\ InitMatched
    /\ InitFind
    /\ InitInvert
    /\ InitStore
    /\ InitDiff
    /\ InitPortion
    /\ InitSwap

New ==
    /\ pc = "new"
    /\ \E lim \in Limits, r \in Rosters :
        /\ limits' = lim
        /\ roster' = r
        /\ initial' = new(lim, r)
    /\ pc' = "reserved"
    /\ UNCHANGED <<final_direct, final, refund, validated, received, offered>>
    /\ UNCHANGED exceptLifeVars

Finalize ==
    /\ pc = "reserved"
    /\ initial.tag = "Ok"
    /\ \E d \in DirectVals :
         /\ final_direct' = d
         /\ final' = from_initial_participation(initial.val, d)
    /\ pc' = "finalized"
    /\ UNCHANGED <<limits, roster, initial, refund, validated, received, offered>>
    /\ UNCHANGED exceptLifeVars

Refund ==
    /\ pc = "finalized"
    /\ final.tag = "Ok"
    /\ refund' = diff(initial.val.neurons_fund_reserves, final.val.neurons_fund_reserves)
    /\ pc' = "settled"
    /\ UNCHANGED <<limits, roster, initial, final_direct, final, validated, received, offered>>
    /\ UNCHANGED exceptLifeVars

\* Round trip through the wire type: NeuronsFundParticipationPb::from(initial)
\* followed by validate().
Validate ==
    /\ pc = "reserved"
    /\ initial.tag = "Ok"
    /\ \E r \in ParticipationPb_validate(ParticipationPb_from(initial.val)) :
           validated' = r
    /\ pc' = "validated"
    /\ UNCHANGED <<limits, roster, initial, final_direct, final, refund, received, offered>>
    /\ UNCHANGED exceptLifeVars

\* Representations a wire participation may carry.
Tokens == {"<SimpleLinearFunction>", "", "SimpleLinearFunction",
           "<simplelinearfunction>", "<SimpleLinearFunction> ", "<LinearFunction>"}

\* The wire form of the initial participation as another party may send it:
\* with any representation of the function (or none), and with or without
\* the reserves.
ReceivedPbs(participation) ==
    LET pb == ParticipationPb_from(participation)
    IN  {[pb EXCEPT !.ideal_matched_participation_function = f,
                    !.neurons_fund_reserves = r] :
            f \in {None, Some([serialized_representation |-> None])}
                     \cup {Some([serialized_representation |-> Some(t)]) : t \in Tokens},
            r \in {None, pb.neurons_fund_reserves}}

\* received.validate()
ValidateWire ==
    /\ pc = "reserved"
    /\ initial.tag = "Ok"
    /\ \E pb \in ReceivedPbs(initial.val) :
         /\ received' = pb
         /\ \E r \in ParticipationPb_validate(pb) : validated' = r
    /\ pc' = "wire_validated"
    /\ UNCHANGED <<limits, roster, initial, final_direct, final, refund, offered>>
    /\ UNCHANGED exceptLifeVars

\* initial.compute_constraints()
ComputeConstraints ==
    /\ pc = "reserved"
    /\ initial.tag = "Ok"
    /\ offered' = compute_constraints(initial.val)
    /\ pc' = "constrained"
    /\ UNCHANGED <<limits, roster, initial, final_direct, final, refund, validated, received>>
    /\ UNCHANGED exceptLifeVars

Next == New \/ Finalize \/ Refund \/ Validate \/ ValidateWire \/ ComputeConstraints
Spec == Init /\ [][Next]_vars

\* The matched participation function on its own.
SpecMatched == Init /\ [][NextMatched]_vars

\* find_interval on its own.
SpecFind == Init /\ [][NextFind]_vars

\* invert_with_tracing on its own.
SpecInvert == Init /\ [][NextInvert]_vars

\* The call runs to its end: it is sequential code that nothing suspends.
SpecInvertLive == Init /\ [][NextInvert]_vars /\ WF_vars(NextInvert)

\* The NeuronStore mutations on their own.
SpecStore == Init /\ [][NextStore]_vars

\* diff on its own.
SpecDiff == Init /\ [][NextDiff]_vars
SpecPortion == Init /\ [][NextPortion]_vars
SpecSwap == Init /\ [][NextSwap]_vars

-----------------------------------------------------------------------------
(* Claims about the lifecycle (specification Spec) *)

InitialSnapshot == initial.val.neurons_fund_reserves
FinalSnapshot == final.val.neurons_fund_reserves

\* C1: conservation.  Whenever new, from_initial_participation and diff all
\* succeed, the total of the initial snapshot minus the total of the final
\* snapshot equals the total of the refund snapshot.
C1_Conservation ==
    (pc = "settled" /\ refund.tag = "Ok") =>
        total_amount_icp_e8s(InitialSnapshot) - total_amount_icp_e8s(FinalSnapshot)
            = total_amount_icp_e8s(refund.val)

\* C1 witness: a settled lifecycle that keeps part of the reservation and refunds the rest.
C1_Witness ==
    /\ pc = "settled"
    /\ refund.tag = "Ok"
    /\ total_amount_icp_e8s(FinalSnapshot) > 0
    /\ total_amount_icp_e8s(refund.val) > 0
    /\ Cardinality(DOMAIN refund.val) > Cardinality(DOMAIN FinalSnapshot)

C5_CapMonotone ==
    (pc \in {"finalized", "settled"} /\ final.tag = "Ok") =>
        \A id \in DOMAIN FinalSnapshot :
            FinalSnapshot[id].is_capped =>
                (id \in DOMAIN InitialSnapshot /\ InitialSnapshot[id].is_capped)

\* C5 witness: a final snapshot with a capped neuron next to one that was capped at the
\* reservation and no longer is.
C5_Witness ==
    /\ pc = "finalized"
    /\ final.tag = "Ok"
    /\ \E id \in DOMAIN FinalSnapshot : FinalSnapshot[id].is_capped
    /\ \E id \in DOMAIN FinalSnapshot :
           ~FinalSnapshot[id].is_capped /\ InitialSnapshot[id].is_capped

\* The exact proportional amount (maturity / total) * intended is strictly
\* less than min_participant.
ExactShareBelowMin(maturity, participation) ==
    maturity * participation.intended_neurons_fund_participation_icp_e8s
        < participation.swap_participation_limits.min_participant_icp_e8s
            * participation.total_maturity_equivalent_icp_e8s

\* The amount the code computes for the neuron, rounded half-even to u64, is
\* strictly less than min_participant.
RoundedShareBelowMin(maturity, participation) ==
    LET ideal == ideal_participation_amount_icp_e8s(
                     maturity, participation.total_maturity_equivalent_icp_e8s,
                     u64_to_dec(participation.intended_neurons_fund_participation_icp_e8s))
    IN  /\ ideal.tag = "Ok"
        /\ ideal.val < participation.swap_participation_limits.min_participant_icp_e8s

\* The roster the final participation is built from.
FinalRoster == RosterOfSnapshot(InitialSnapshot)

\* C9 as stated: drop stability.  In a participation built by new or by
\* from_initial_participation, a roster neuron whose exact proportional amount
\* is strictly less than min_participant has no portion in the snapshot.
C9_DropStabilityExact ==
    /\ (pc # "new" /\ initial.tag = "Ok") =>
           \A k \in 1..Len(roster) :
               ExactShareBelowMin(roster[k].maturity_equivalent_icp_e8s, initial.val)
                   => roster[k].id \notin DOMAIN InitialSnapshot
    /\ (pc \in {"finalized", "settled"} /\ final.tag = "Ok") =>
           \A k \in 1..Len(FinalRoster) :
               ExactShareBelowMin(FinalRoster[k].maturity_equivalent_icp_e8s, final.val)
                   => FinalRoster[k].id \notin DOMAIN FinalSnapshot

\* C9 amended: drop stability on the rounded amount.  A roster neuron whose
\* proportional amount, as computed in decimals and rounded half-even to u64,
\* is strictly less than min_participant has no portion in the snapshot.
C9_DropStabilityRounded ==
    /\ (pc # "new" /\ initial.tag = "Ok") =>
           \A k \in 1..Len(roster) :
               RoundedShareBelowMin(roster[k].maturity_equivalent_icp_e8s, initial.val)
                   => roster[k].id \notin DOMAIN InitialSnapshot
    /\ (pc \in {"finalized", "settled"} /\ final.tag = "Ok") =>
           \A k \in 1..Len(FinalRoster) :
               RoundedShareBelowMin(FinalRoster[k].maturity_equivalent_icp_e8s, final.val)
                   => FinalRoster[k].id \notin DOMAIN FinalSnapshot

\* C9 witness: a finalization that drops a neuron of the reservation for a positive
\* rounded amount below min_participant, and keeps another neuron.
C9_Witness ==
    /\ pc = "finalized"
    /\ final.tag = "Ok"
    /\ DOMAIN FinalSnapshot # {}
    /\ \E k \in 1..Len(FinalRoster) :
           /\ RoundedShareBelowMin(FinalRoster[k].maturity_equivalent_icp_e8s, final.val)
           /\ FinalRoster[k].maturity_equivalent_icp_e8s
                  * final.val.intended_neurons_fund_participation_icp_e8s
                  * 2 > final.val.total_maturity_equivalent_icp_e8s
           /\ FinalRoster[k].id \notin DOMAIN FinalSnapshot

\* C10: the total amount of a participation built by new or by
\* from_initial_participation never exceeds its recorded
\* max_neurons_fund_swap_participation_icp_e8s.
C10_TotalWithinMax ==
    /\ (pc # "new" /\ initial.tag = "Ok") =>
           total_amount_icp_e8s(InitialSnapshot)
               <= initial.val.max_neurons_fund_swap_participation_icp_e8s
    /\ (pc \in {"finalized", "settled"} /\ final.tag = "Ok") =>
           total_amount_icp_e8s(FinalSnapshot)
               <= final.val.max_neurons_fund_swap_participation_icp_e8s

-----------------------------------------------------------------------------
(* Claims about MatchedParticipationFunction (specification SpecMatched) *)

ValidCells == params.val.coefficient_intervals

\* The index of the cell of the validated constraints that contains d, or 0.
CellOf(d) ==
    IF \E k \in 1..Len(ValidCells) : contains(ValidCells[k], d)
    THEN CHOOSE k \in 1..Len(ValidCells) : contains(ValidCells[k], d)
    ELSE 0

\* d is matched through the coefficients of a cell: it is at or above the
\* threshold and inside one of the intervals.
InsideCell(d) ==
    /\ d >= params.val.min_direct_participation_threshold_icp_e8s
    /\ CellOf(d) # 0

\* The ideal function sampled by the calls is non-decreasing.
IdealNonDecreasing ==
    \A a, b \in 1..Len(calls) : calls[a].d <= calls[b].d => calls[a].ideal <= calls[b].ideal

\* C3 (hard cap): for validated constraints, a non-negative ideal function and
\* any direct participation d, apply(d) returns a value that is at most
\* min(max_neurons_fund_participation_icp_e8s, the theoretical maximum).
C3_HardCap ==
    \A k \in 1..Len(calls) :
        /\ calls[k].out.tag = "Ok"
        /\ calls[k].out.val <=
               Min(u64_to_dec(params.val.max_neurons_fund_participation_icp_e8s),
                   u64_to_dec(MAX_THEORETICAL_NEURONS_FUND_PARTICIPATION_AMOUNT_ICP_E8S))

\* C3 witness: a call inside a cell whose line reaches above the theoretical
\* maximum, and a call whose line reaches above the constraints' maximum; both
\* return exactly the cap.
C3_Witness ==
    /\ Len(calls) = 2
    /\ InsideCell(calls[1].d)
    /\ params.val.max_neurons_fund_participation_icp_e8s >
           MAX_THEORETICAL_NEURONS_FUND_PARTICIPATION_AMOUNT_ICP_E8S
    /\ calls[1].ideal > u64_to_dec(MAX_THEORETICAL_NEURONS_FUND_PARTICIPATION_AMOUNT_ICP_E8S)
    /\ ValidCells[CellOf(calls[1].d)].slope_numerator = 1
    /\ ValidCells[CellOf(calls[1].d)].slope_denominator = 1
    /\ calls[1].out = Ok(u64_to_dec(MAX_THEORETICAL_NEURONS_FUND_PARTICIPATION_AMOUNT_ICP_E8S))
    /\ calls[2].d >= IntervalTo(ValidCells[Len(ValidCells)])
    /\ calls[2].out = calls[1].out

\* C4 as stated (matching monotonicity): for validated constraints and a
\* non-negative non-decreasing ideal function, d1 <= d2 implies
\* apply(d1) <= apply(d2), across interval boundaries too.
C4_Monotone ==
    IdealNonDecreasing =>
        \A a, b \in 1..Len(calls) :
            calls[a].d <= calls[b].d => calls[a].out.val <= calls[b].out.val

\* C4 amended: for validated constraints and a non-negative non-decreasing
\* ideal function, d1 <= d2 implies apply(d1) <= apply(d2) unless d1 and d2
\* are matched through two different cells.
C4_MonotoneWithinCell ==
    IdealNonDecreasing =>
        \A a, b \in 1..Len(calls) :
            /\ calls[a].d <= calls[b].d
            /\ ~(/\ InsideCell(calls[a].d)
                 /\ InsideCell(calls[b].d)
                 /\ CellOf(calls[a].d) # CellOf(calls[b].d))
            => calls[a].out.val <= calls[b].out.val

\* C4 witness: two calls in one cell with different inputs and a growing ideal
\* value, the second result larger than the first.
C4_Witness ==
    /\ Len(calls) = 2
    /\ calls[1].d < calls[2].d
    /\ calls[1].ideal < calls[2].ideal
    /\ InsideCell(calls[1].d)
    /\ InsideCell(calls[2].d)
    /\ CellOf(calls[1].d) = CellOf(calls[2].d)
    /\ calls[1].out.val < calls[2].out.val

-----------------------------------------------------------------------------
(* Claims about find_interval (specification SpecFind) *)

\* C8 (partition soundness): on an ordered list of pairwise disjoint cells,
\* find_interval(x) returns the one cell that contains x, and None exactly
\* when no cell contains x.
C8_PartitionSound ==
    fpc = "done" =>
        /\ \A k \in 1..Len(intervals) :
               contains(intervals[k], key) => found = Some(k - 1)
        /\ (~\E k \in 1..Len(intervals) : contains(intervals[k], key)) => found = None

\* C8 witness: a search in three cells that ends in the last one, which
\* begins where the middle one ends.
C8_Witness ==
    /\ fpc = "done"
    /\ Len(intervals) = 3
    /\ IntervalTo(intervals[2]) = IntervalFrom(intervals[3])
    /\ key = IntervalFrom(intervals[3])
    /\ found = Some(2)

-----------------------------------------------------------------------------
(* Claims about invert (specification SpecInvert) *)

\* f without its bump: non-decreasing, and strictly increasing when its slope
\* is positive.
Unbumped(f) == [f EXCEPT !.bump = None]

\* apply of f is non-decreasing over 0..U64_MAX.
NonDecreasing(f) ==
    \/ f.bump = None
    \/ LET p == f.bump[1][1]
           v == f.bump[1][2]
       IN  /\ p = 0 \/ apply(Unbumped(f), p - 1) <= v
           /\ p = U64_MAX \/ v <= apply(Unbumped(f), p + 1)

\* apply of f is strictly increasing over 0..U64_MAX.
StrictlyIncreasing(f) ==
    /\ f.slope > 0
    /\ \/ f.bump = None
       \/ LET p == f.bump[1][1]
              v == f.bump[1][2]
          IN  /\ p = 0 \/ apply(Unbumped(f), p - 1) < v
              /\ p = U64_MAX \/ v < apply(Unbumped(f), p + 1)

\* The call of invert has returned or panicked.
InvertDone == ipc \in {"exact", "best_effort", "error", "panic"}

\* The points whose value is the target.
Preimage == {p \in Points : apply(fn, p) = target_y}

AbsDiff(a, b) == IF a <= b THEN b - a ELSE a - b

C7_ApplyRoundTrip ==
    InvertDone /\ NonDecreasing(fn) /\ Preimage # {} =>
        /\ ipc = "exact"
        /\ result.tag = "Ok"
        /\ apply(fn, result.val) = target_y

\* C7 amended: for every non-decreasing apply and every x with apply(x) >= 0,
\* invert(apply(x)) returns Ok(x') with apply(x') = apply(x), found by an exact
\* hit and not by the best-effort fallback.
C7_ApplyRoundTripNonNegative ==
    InvertDone /\ NonDecreasing(fn) /\ Preimage # {} /\ target_y >= 0 =>
        /\ ipc = "exact"
        /\ result.tag = "Ok"
        /\ apply(fn, result.val) = target_y

\* C7 witness: a function that is constant around the point whose value is
\* inverted; the search ends on an exact hit at another point of the plateau.
C7_Witness ==
    /\ ipc = "exact"
    /\ NonDecreasing(fn)
    /\ fn.slope = 0
    /\ Preimage # {}
    /\ result.val \notin Preimage
    /\ apply(fn, result.val) = target_y
    /\ Len(search.trace) > 1

-----------------------------------------------------------------------------
(* Claims about the NeuronStore mutations (specification SpecStore) *)

\* The neuron's update cannot be made: its id is not in the store, or the
\* checked subtraction (draw) or addition (refund) fails.
UpdateFails(id) ==
    \/ id \notin DOMAIN mutation.before
    \/ /\ mutation.action = "DrawMaturity"
       /\ mutation.before[id] < mutation.snapshot[id].amount_icp_e8s
    \/ /\ mutation.action = "RefundMaturity"
       /\ mutation.before[id] + mutation.snapshot[id].amount_icp_e8s > U64_MAX

\* C11 (partial-failure apply): draw and refund visit every portion of the
\* snapshot; a neuron whose update fails keeps its maturity (a missing one
\* stays missing); every other neuron of the snapshot changes by exactly its
\* portion's amount, whether or not an earlier neuron failed; neurons outside
\* the snapshot are untouched; and the call returns Err iff some neuron failed.
C11_PartialFailure ==
    spc = "mutated" =>
        /\ DOMAIN neuron_store = DOMAIN mutation.before
        /\ \A id \in DOMAIN neuron_store :
               neuron_store[id] =
                   IF id \notin DOMAIN mutation.snapshot \/ UpdateFails(id)
                   THEN mutation.before[id]
                   ELSE IF mutation.action = "DrawMaturity"
                   THEN mutation.before[id] - mutation.snapshot[id].amount_icp_e8s
                   ELSE mutation.before[id] + mutation.snapshot[id].amount_icp_e8s
        /\ (mutation.result.tag = "Err") <=>
               (\E id \in DOMAIN mutation.snapshot : UpdateFails(id))
        /\ mutation.result.tag \in {"Ok", "Err"}

\* C11 witness: a draw in which the first neuron of the snapshot is missing
\* from the store, the second has too little maturity, and the third is
\* drawn from all the same; the call returns Err.
C11_Witness ==
    /\ spc = "mutated"
    /\ mutation.action = "DrawMaturity"
    /\ DOMAIN mutation.snapshot = {1, 2, 3}
    /\ 1 \notin DOMAIN mutation.before
    /\ 2 \in DOMAIN mutation.before
    /\ mutation.before[2] < mutation.snapshot[2].amount_icp_e8s
    /\ neuron_store[2] = mutation.before[2]
    /\ 3 \in DOMAIN mutation.before
    /\ mutation.snapshot[3].amount_icp_e8s > 0
    /\ neuron_store[3] = mutation.before[3] - mutation.snapshot[3].amount_icp_e8s
    /\ mutation.result.tag = "Err"
    /\ Len(mutation.result.val) = 2

-----------------------------------------------------------------------------
(* Claims about diff (specification SpecDiff) *)

C13_DiffFailure ==
    dpc = "done" =>
        /\ difference.tag \in {"Ok", "Err"}
        /\ (difference.tag = "Err") <=>
               \/ \E id \in DOMAIN minuend \cap DOMAIN subtrahend :
                      \/ subtrahend[id].amount_icp_e8s > minuend[id].amount_icp_e8s
                      \/ subtrahend[id].maturity_equivalent_icp_e8s
                             # minuend[id].maturity_equivalent_icp_e8s
                      \/ subtrahend[id].controller # minuend[id].controller
                      \/ subtrahend[id].is_capped /\ ~minuend[id].is_capped
               \/ \E id \in DOMAIN subtrahend : id \notin DOMAIN minuend

\* C13 witness: a diff that fails only because other holds an id that self
\* does not hold, while the portions of the shared id agree.
C13_Witness ==
    /\ dpc = "done"
    /\ difference.tag = "Err"
    /\ DOMAIN minuend \cap DOMAIN subtrahend # {}
    /\ \A id \in DOMAIN minuend \cap DOMAIN subtrahend :
           ~DiffPortionError(minuend[id], subtrahend[id])
    /\ DOMAIN subtrahend \ DOMAIN minuend # {}

-----------------------------------------------------------------------------
(* Claims about compute_constraints (specification Spec) *)

\* C14 (compute_constraints yields valid constraints): for every participation
\* built by new, an empty Fund and a maximum of 0 included, the constraints
\* that compute_constraints() returns are accepted by
\* ValidatedNeuronsFundParticipationConstraints::try_from, and their single
\* interval starts at 0.
C14_ConstraintsValid ==
    pc = "constrained" =>
        /\ offered.tag = "Ok"
        /\ Len(offered.val.coefficient_intervals) = 1
        /\ offered.val.coefficient_intervals[1].from_direct_participation_icp_e8s = Some(0)
        /\ Constraints_try_from(offered.val).tag = "Ok"

-----------------------------------------------------------------------------
(* Claims about the maximum of new_impl (specification Spec) *)

\* 10% of a total as a Decimal, 10% being 1000 / 10000 basis points.
ExactShareDec(total) ==
    DecMul(u64_to_dec(total),
           DecDiv(u64_to_dec(MAX_NEURONS_FUND_PARTICIPATION_BASIS_POINTS),
                  u64_to_dec(BASIS_POINTS_PER_UNITY)))

\* C15 (maximum taken exactly): the stored
\* max_neurons_fund_swap_participation_icp_e8s of every participation built by
\* new_impl equals min(hard cap, 10% of the total maturity, f(max direct
\* participation)) with the 10% taken exactly as a Decimal and rounded to u64
\* only when stored, for every total, multiples of 10 or not.
C15_MaxSwapExact ==
    (pc = "reserved" /\ initial.tag = "Ok") =>
        Ok(initial.val.max_neurons_fund_swap_participation_icp_e8s) =
            dec_to_u64(DecMin(DecMin(
                u64_to_dec(MAX_THEORETICAL_NEURONS_FUND_PARTICIPATION_AMOUNT_ICP_E8S),
                ExactShareDec(initial.val.total_maturity_equivalent_icp_e8s)),
                SimpleLinearFunction_apply(limits.max_direct_participation_icp_e8s)))

\* C15 (as the code has it): the stored maximum equals min(hard cap, 10% of
\* the total maturity rounded down to a whole number of e8s, f(max direct
\* participation)): the 10% is taken by integer division before the minimum,
\* so that the maximum never exceeds 10% of the total.
C15_MaxSwapFloored ==
    (pc = "reserved" /\ initial.tag = "Ok") =>
        LET total == initial.val.total_maturity_equivalent_icp_e8s
            stored == initial.val.max_neurons_fund_swap_participation_icp_e8s
            share == total * MAX_NEURONS_FUND_PARTICIPATION_BASIS_POINTS
            hard == MAX_THEORETICAL_NEURONS_FUND_PARTICIPATION_AMOUNT_ICP_E8S
            direct == limits.max_direct_participation_icp_e8s
        IN  /\ stored <= hard
            /\ stored <= direct
            /\ stored * BASIS_POINTS_PER_UNITY <= share
            /\ \/ stored = hard
               \/ stored = direct
               \/ (stored + 1) * BASIS_POINTS_PER_UNITY > share

\* A participation whose total is not a multiple of 10 and whose maximum is
\* the 10% share, where rounding down and rounding to nearest differ.
C15_Witness ==
    /\ pc = "reserved"
    /\ initial.tag = "Ok"
    /\ initial.val.total_maturity_equivalent_icp_e8s = 15
    /\ initial.val.max_neurons_fund_swap_participation_icp_e8s = 1
    /\ limits.max_direct_participation_icp_e8s > 1

-----------------------------------------------------------------------------
(* Claims about the apportioning of new_impl (specification Spec) *)

\* ideal_i: (maturity_i / total_maturity) * intended in decimals, rounded
\* half-even to a whole number of e8s.
IdealAmount(maturity, participation) ==
    RoundHalfEven(
        DecMul(DecDiv(u64_to_dec(maturity),
                      u64_to_dec(participation.total_maturity_equivalent_icp_e8s)),
               u64_to_dec(participation.intended_neurons_fund_participation_icp_e8s)),
        DecScale)

\* The apportioning rule for one participation and the roster it was built from.
Apportioned(participation, neurons_fund) ==
    LET lim == participation.swap_participation_limits
        snapshot == participation.neurons_fund_reserves
    IN  \A k \in 1..Len(neurons_fund) :
            LET neuron == neurons_fund[k]
                ideal == IdealAmount(neuron.maturity_equivalent_icp_e8s, participation)
            IN  /\ neuron.id \in DOMAIN snapshot <=> ideal >= lim.min_participant_icp_e8s
                /\ neuron.id \in DOMAIN snapshot =>
                       /\ snapshot[neuron.id].amount_icp_e8s
                              = Min(ideal, lim.max_participant_icp_e8s)
                       /\ snapshot[neuron.id].is_capped
                              <=> ideal > lim.max_participant_icp_e8s

\* C16 (per-neuron apportioning rule): with ideal_i the proportional amount
\* rounded half-even, a roster neuron is in the snapshot iff ideal_i >=
\* min_participant; its amount is min(ideal_i, max_participant) and it is
\* capped iff ideal_i > max_participant.  This holds for the participation
\* built by new and for the one built by from_initial_participation.
C16_Apportioning ==
    /\ (pc # "new" /\ initial.tag = "Ok") => Apportioned(initial.val, roster)
    /\ (pc \in {"finalized", "settled"} /\ final.tag = "Ok") =>
           Apportioned(final.val, FinalRoster)

\* A participation with a neuron exactly at max_participant (kept uncapped),
\* one above it (capped) and one below min_participant (dropped).
C16_Witness ==
    /\ pc = "reserved"
    /\ initial.tag = "Ok"
    /\ \E k \in 1..Len(roster) :
           /\ IdealAmount(roster[k].maturity_equivalent_icp_e8s, initial.val)
                  = limits.max_participant_icp_e8s
           /\ limits.min_participant_icp_e8s = limits.max_participant_icp_e8s
           /\ roster[k].id \in DOMAIN InitialSnapshot
           /\ ~InitialSnapshot[roster[k].id].is_capped
    /\ \E k \in 1..Len(roster) :
           /\ roster[k].id \in DOMAIN InitialSnapshot
           /\ InitialSnapshot[roster[k].id].is_capped
    /\ \E k \in 1..Len(roster) : roster[k].id \notin DOMAIN InitialSnapshot

-----------------------------------------------------------------------------
(* Claims about the cases of apply (specification SpecMatched) *)

\* The value the cases give for one call of apply: 0 below the threshold, the
\* cap from the last upper bound on, and otherwise the cell's line, capped.
ByCases(call) ==
    LET p == params.val
        cap == u64_to_dec(Min(p.max_neurons_fund_participation_icp_e8s,
                              MAX_THEORETICAL_NEURONS_FUND_PARTICIPATION_AMOUNT_ICP_E8S))
    IN  IF call.d < p.min_direct_participation_threshold_icp_e8s THEN 0
        ELSE IF call.d >= IntervalTo(ValidCells[Len(ValidCells)]) THEN cap
        ELSE LET cell == ValidCells[CellOf(call.d)]
             IN  Min(cap, u64_to_dec(cell.intercept_icp_e8s)
                          + (cell.slope_numerator * call.ideal) \div cell.slope_denominator)

\* C17 (effective participation by cases): for validated constraints every
\* call apply(d) returns (it does not reach unreachable!), the value is 0 when
\* d is below the threshold, min(max participation, theoretical maximum) when
\* d is at or above the last interval's upper bound, and otherwise the capped
\* value intercept + (numerator / denominator) * f(d) of the one interval that
\* contains d.
C17_ByCases ==
    \A k \in 1..Len(calls) :
        /\ calls[k].out.tag = "Ok"
        /\ calls[k].d >= params.val.min_direct_participation_threshold_icp_e8s
               /\ calls[k].d < IntervalTo(ValidCells[Len(ValidCells)])
               => Cardinality({c \in 1..Len(ValidCells) : contains(ValidCells[c], calls[k].d)}) = 1
        /\ calls[k].out.val = ByCases(calls[k])

\* One call below the threshold with a positive ideal value, and one call at
\* the last upper bound of constraints whose last cell has a line below the cap.
C17_Witness ==
    /\ Len(calls) = 2
    /\ calls[1].d < params.val.min_direct_participation_threshold_icp_e8s
    /\ calls[1].ideal > 0
    /\ calls[1].out = Ok(0)
    /\ calls[2].d = IntervalTo(ValidCells[Len(ValidCells)])
    /\ calls[2].out = Ok(u64_to_dec(MAX_THEORETICAL_NEURONS_FUND_PARTICIPATION_AMOUNT_ICP_E8S))
    /\ Len(ValidCells) = 2
    /\ ValidCells[2].slope_numerator = 0

-----------------------------------------------------------------------------
(* Claims about validated constraints (specification SpecMatched) *)

\* Every field of the wire value and of its cells is present.
AllFieldsPresent(w) ==
    /\ w.min_direct_participation_threshold_icp_e8s # None
    /\ w.max_neurons_fund_participation_icp_e8s # None
    /\ \A k \in 1..Len(w.coefficient_intervals) :
           LET c == w.coefficient_intervals[k]
           IN  /\ c.from_direct_participation_icp_e8s # None
               /\ c.to_direct_participation_icp_e8s # None
               /\ c.slope_numerator # None
               /\ c.slope_denominator # None
               /\ c.intercept_icp_e8s # None

\* The conditions on a list of cells; get(field) reads a field of a cell.
WellFormed(cells, get(_, _)) ==
    LET n == Len(cells)
    IN  /\ 1 <= n
        /\ n <= MAX_LINEAR_SCALING_COEFFICIENT_VEC_LEN
        /\ get(cells[1], "from") = 0
        /\ \A k \in 1..(n - 1) : get(cells[k], "to") = get(cells[k + 1], "from")
        /\ \A k \in 1..n :
               /\ get(cells[k], "from") < get(cells[k], "to")
               /\ get(cells[k], "den") > 0
               /\ get(cells[k], "num") <= get(cells[k], "den")

ValidatedField(c, f) ==
    IF f = "from" THEN c.from_direct_participation_icp_e8s
    ELSE IF f = "to" THEN c.to_direct_participation_icp_e8s
    ELSE IF f = "num" THEN c.slope_numerator
    ELSE c.slope_denominator

WireField(c, f) == ValidatedField(c, f)[1]

\* C18 (validated constraints): every value try_from accepts has at least one
\* and at most MAX_LINEAR_SCALING_COEFFICIENT_VEC_LEN intervals, the first one
\* starting at 0, each ending where the next starts, each with from < to, a
\* positive denominator and numerator <= denominator; conversely a wire value
\* with all fields present that satisfies these conditions is accepted.
C18_Validated ==
    /\ mpc = "built" => WellFormed(params.val.coefficient_intervals, ValidatedField)
    /\ (mpc = "rejected" /\ AllFieldsPresent(constraints)) =>
           ~WellFormed(constraints.coefficient_intervals, WireField)

\* Constraints with the largest number of intervals were accepted.
C18_Witness ==
    /\ mpc = "built"
    /\ AllFieldsPresent(constraints)
    /\ Len(params.val.coefficient_intervals) = MAX_LINEAR_SCALING_COEFFICIENT_VEC_LEN
    /\ WellFormed(constraints.coefficient_intervals, WireField)

-----------------------------------------------------------------------------
(* Claims about the portion bound (specifications SpecPortion and Spec) *)

\* C19 (portion bound): every portion NeuronsFundNeuronPortionPb::validate
\* accepts has amount_icp_e8s <= maturity_equivalent_icp_e8s, and a wire
\* portion with all fields present and amount > maturity is rejected with
\* AmountTooBig.
C19_PortionBound ==
    vpc = "done" =>
        /\ checked_portion.tag = "Ok" =>
               checked_portion.val.amount_icp_e8s
                   <= checked_portion.val.maturity_equivalent_icp_e8s
        /\ (/\ \A f \in DOMAIN wire_portion : wire_portion[f] # None
            /\ wire_portion.amount_icp_e8s[1] > wire_portion.maturity_equivalent_icp_e8s[1])
               => checked_portion = Err("AmountTooBig")

\* The bound on the portions that new, from_initial_participation and diff
\* produce in the lifecycle.
ProducedPortionsBounded ==
    LET Bounded(snapshot) ==
            \A id \in DOMAIN snapshot :
                snapshot[id].amount_icp_e8s <= snapshot[id].maturity_equivalent_icp_e8s
    IN  /\ (pc # "new" /\ initial.tag = "Ok") => Bounded(InitialSnapshot)
        /\ (pc \in {"finalized", "settled"} /\ final.tag = "Ok") => Bounded(FinalSnapshot)
        /\ (pc = "settled" /\ refund.tag = "Ok") => Bounded(refund.val)

-----------------------------------------------------------------------------
(* Claims about the frame of from_initial_participation (specification Spec) *)

\* C20 (finalization frame): a step p.from_initial_participation(d) leaves p
\* as it was and, when it succeeds, returns a participation with p's swap
\* limits, total maturity, maximum and matching function, with direct
\* participation d, and with a snapshot whose ids are among those of p's
\* snapshot, each portion keeping p's maturity and controller.
C20_FinalizationFrame ==
    [][(pc = "reserved" /\ pc' = "finalized") =>
          /\ initial' = initial
          /\ final'.tag = "Ok" =>
                LET p == initial.val
                    q == final'.val
                IN  /\ q.swap_participation_limits = p.swap_participation_limits
                    /\ q.total_maturity_equivalent_icp_e8s
                           = p.total_maturity_equivalent_icp_e8s
                    /\ q.max_neurons_fund_swap_participation_icp_e8s
                           = p.max_neurons_fund_swap_participation_icp_e8s
                    /\ q.ideal_matched_participation_function
                           = p.ideal_matched_participation_function
                    /\ q.direct_participation_icp_e8s = final_direct'
                    /\ DOMAIN q.neurons_fund_reserves \subseteq DOMAIN p.neurons_fund_reserves
                    /\ \A id \in DOMAIN q.neurons_fund_reserves :
                           /\ q.neurons_fund_reserves[id].maturity_equivalent_icp_e8s
                                  = p.neurons_fund_reserves[id].maturity_equivalent_icp_e8s
                           /\ q.neurons_fund_reserves[id].controller
                                  = p.neurons_fund_reserves[id].controller]_vars

\* A finalization with another direct participation than the initial one that
\* kept some portions and lost others, from a participation whose own
\* snapshot had already lost a neuron of the roster.
C20_Witness ==
    /\ pc = "finalized"
    /\ final.tag = "Ok"
    /\ final.val.direct_participation_icp_e8s = final_direct
    /\ final_direct # initial.val.direct_participation_icp_e8s
    /\ DOMAIN FinalSnapshot # {}
    /\ DOMAIN FinalSnapshot # DOMAIN InitialSnapshot
    /\ Cardinality(DOMAIN InitialSnapshot) < Len(roster)
    /\ \E k \in 1..Len(roster) :
           /\ roster[k].id \notin DOMAIN InitialSnapshot
           /\ roster[k].maturity_equivalent_icp_e8s > 0

-----------------------------------------------------------------------------
(* Claims about the matching-function token (specification Spec) *)

\* The representation a received wire participation carries; None when the
\* function or its representation is absent.
ReceivedToken ==
    IF received.ideal_matched_participation_function = None THEN None
    ELSE received.ideal_matched_participation_function[1].serialized_representation

\* C21 (matching-function token): SimpleLinearFunction::new(t) succeeds iff t
\* is the token serialize() returns; validate fails with
\* MatchFunctionDeserializationFailed for every wire participation that carries
\* another token, whatever its other fields; and from_initial_participation
\* never fails at its serialize/new step.
C21_Token ==
    /\ \A t \in Tokens :
           SimpleLinearFunction_new(t).tag = "Ok" <=> t = SimpleLinearFunction_serialize
    /\ (pc = "wire_validated" /\ ReceivedToken # None) =>
           (ReceivedToken[1] # SimpleLinearFunction_serialize
                <=> validated = Err("MatchFunctionDeserializationFailed"))
    /\ (pc \in {"finalized", "settled"}) =>
           (final.tag = "Err" => final.val # SimpleLinearFunction_new("").val)

\* A wire participation with another token and without reserves was rejected
\* for its token.
C21_Witness ==
    /\ pc = "wire_validated"
    /\ ReceivedToken = Some("<simplelinearfunction>")
    /\ received.neurons_fund_reserves = None
    /\ validated = Err("MatchFunctionDeserializationFailed")

-----------------------------------------------------------------------------
(* Claims about the best-effort result of invert (specification SpecInvert) *)

\* The last probe of a search that left the loop without an exact hit.
LastProbe == [x |-> search.x, y |-> search.y]

\* The probe before the last one: the trace holds every probe in order, less
\* the last one when the best-effort branch has popped it.
PrevProbe ==
    LET trace == search.trace
        n == IF trace[Len(trace)].x = search.x THEN Len(trace) - 1 ELSE Len(trace)
    IN  [x |-> trace[n].x, y |-> trace[n].y]

\* C22 (best-effort result): when the loop ends without an exact hit, invert
\* returns, of the last two probed points, the x whose y is nearest to
\* target_y.
C22_BestOfLastTwo ==
    ipc = "best_effort" =>
        /\ result.tag = "Ok"
        /\ result.val \in {PrevProbe.x, LastProbe.x}
        /\ \A probe \in {PrevProbe, LastProbe} :
               DecAbs(target_y - apply(fn, result.val)) <= DecAbs(target_y - probe.y)

\* What the code returns: always the last probe.
BestEffortIsLastProbe ==
    ipc = "best_effort" => result = Ok(LastProbe.x)

-----------------------------------------------------------------------------
(* Claims about the loop of invert (specification SpecInvert) *)

\* The head of an iteration: the loop guard holds and the body is about to run.
AtLoopHead == ipc = "loop" /\ search.left <= search.right

\* C23 (loop invariants): at the head of every iteration 0 <= left <= right + 1
\* and 0 <= right <= MAX, the probe x of the iteration satisfies
\* left <= x <= right and differs from the probe of the preceding iteration,
\* and the assertion x != x0 never fails, for monotone and non-monotone
\* functions and every target.
C23_LoopInvariants ==
    /\ ipc = "loop" =>
           /\ 0 <= search.left
           /\ search.left <= search.right + 1
           /\ 0 <= search.right
           /\ search.right <= U64_MAX
    /\ AtLoopHead =>
           LET probe == (search.left + search.right) \div 2
           IN  /\ search.left <= probe
               /\ probe <= search.right
               /\ search.prev_coords # None => probe # search.prev_coords[1][1]
    /\ ipc # "panic"

\* The head of a late iteration of a search on a function that is not
\* monotone, with an interval that has shrunk from both ends.
C23_Witness ==
    /\ AtLoopHead
    /\ ~NonDecreasing(fn)
    /\ search.prev_coords # None
    /\ search.left > 0
    /\ search.right < U64_MAX
    /\ search.left = search.right

-----------------------------------------------------------------------------
(* Claims about the length of the search (specifications SpecInvertLive and
   SpecInvert) *)

\* The width W of the domain [0, 2^W - 1] of the search.
WordBits == CHOOSE w \in 1..64 : 2^w = U64_MAX + 1

\* The number of times the loop body has run: every run pushes one entry on
\* the trace, and the best-effort branch pops the last one.
Iterations ==
    IF ipc = "idle" THEN 0
    ELSE IF ipc = "best_effort" THEN Len(search.trace) + 1
    ELSE Len(search.trace)

\* C24 (termination): for every function and target, invert_with_tracing
\* terminates, its loop body runs at most W + 1 times over the W-bit domain,
\* and right - left strictly decreases in every iteration that does not
\* return.
C24_Termination ==
    /\ <>InvertDone
    /\ [](Iterations <= WordBits + 1)
    /\ [][(ipc = "loop" /\ ipc' = "loop") =>
              search'.right - search'.left < search.right - search.left]_vars

\* A search whose loop body ran W + 1 times.
C24_Witness ==
    /\ InvertDone
    /\ Iterations = WordBits + 1

\* C25 (iteration count stated in the code): for every non-negative target the
\* loop runs at least one and at most W iterations over the W-bit domain.
C25_AtMostWidth ==
    (InvertDone /\ target_y >= 0) => (1 <= Iterations /\ Iterations <= WordBits)

-----------------------------------------------------------------------------
(* Claims about the errors of invert (specification SpecInvert) *)

NotMonotonic == Err("not monotonically increasing")

\* C26 (error outcomes): invert returns Err for every negative target; for a
\* non-decreasing apply it returns Err exactly when the target is negative or
\* strictly below apply(0), never the non-monotonicity error, and Ok for every
\* target >= apply(0); the non-monotonicity error is returned only when the
\* last two probes (x0, y0), (x, y) have x > x0 and y < y0, or x < x0 and
\* y > y0.
C26_ErrorOutcomes ==
    InvertDone =>
        /\ target_y < 0 => result.tag = "Err"
        /\ NonDecreasing(fn) =>
               /\ result.tag \in {"Ok", "Err"}
               /\ result.tag = "Err" <=> (target_y < 0 \/ target_y < apply(fn, 0))
               /\ result # NotMonotonic
        /\ result = NotMonotonic =>
               LET x0 == search.prev_coords[1][1]
                   y0 == search.prev_coords[1][2]
                   last == search.trace[Len(search.trace)]
               IN  /\ Len(search.trace) >= 2
                   /\ search.trace[Len(search.trace) - 1].x = x0
                   /\ search.trace[Len(search.trace) - 1].y = y0
                   /\ \/ last.x > x0 /\ last.y < y0
                      \/ last.x < x0 /\ last.y > y0

\* A non-decreasing function inverted at a non-negative target below its
\* value at 0: the search walks down to x = 0 and fails there.
C26_Witness ==
    /\ ipc = "error"
    /\ NonDecreasing(fn)
    /\ target_y >= 0
    /\ target_y < apply(fn, 0)
    /\ result = Err("Cannot invert small value")
    /\ Len(search.trace) > 2

-----------------------------------------------------------------------------
(* Claims about the refund of a lifecycle (specification Spec) *)

\* C27 (the refund never fails): whenever new succeeds and
\* from_initial_participation(d) returns a participation, for any d, also
\* above max_direct_participation, every portion of the final snapshot has an
\* amount <= the initial amount of the same id with the same maturity and
\* controller, and initial.snapshot().diff(final.snapshot()) returns Ok.
C27_RefundNeverFails ==
    /\ (pc \in {"finalized", "settled"} /\ final.tag = "Ok") =>
           \A id \in DOMAIN FinalSnapshot :
               /\ id \in DOMAIN InitialSnapshot
               /\ FinalSnapshot[id].amount_icp_e8s <= InitialSnapshot[id].amount_icp_e8s
               /\ FinalSnapshot[id].maturity_equivalent_icp_e8s
                      = InitialSnapshot[id].maturity_equivalent_icp_e8s
               /\ FinalSnapshot[id].controller = InitialSnapshot[id].controller
    /\ pc = "settled" => refund.tag = "Ok"

\* A settled lifecycle whose realized direct participation is above
\* max_direct_participation and whose final snapshot is not empty.
C27_Witness ==
    /\ pc = "settled"
    /\ refund.tag = "Ok"
    /\ final_direct > limits.max_direct_participation_icp_e8s
    /\ DOMAIN FinalSnapshot # {}
    /\ initial.val.max_neurons_fund_swap_participation_icp_e8s
           < initial.val.total_maturity_equivalent_icp_e8s

-----------------------------------------------------------------------------
(* Claims about the end state of a swap (specification SpecSwap) *)

RECURSIVE SumOver(_, _)
SumOver(f, S) ==
    IF S = {} THEN 0
    ELSE LET a == CHOOSE b \in S : TRUE IN f[a] + SumOver(f, S \ {a})

\* C28 (end state of the lifecycle): the store holding m_i for every roster
\* neuron when the swap opens and nothing else writing to it, the draw of the
\* initial snapshot and the refund of initial.diff(final) both return Ok, and
\* afterwards every neuron of the final snapshot holds m_i - final.amount_i,
\* every other neuron holds m_i, and the sum of the store's maturities has
\* decreased by final.total_amount.
C28_EndState ==
    /\ swap_pc \notin {"draw_failed", "diff_failed", "refund_failed"}
    /\ swap_pc = "settled" =>
           LET before == StoreOfRoster(swap_state.roster)
               taken == swap_state.final.val.neurons_fund_reserves
           IN  /\ apply_results = <<Ok("unit"), Ok("unit")>>
               /\ DOMAIN fund_store = DOMAIN before
               /\ \A id \in DOMAIN fund_store :
                      fund_store[id] = IF id \in DOMAIN taken
                                       THEN before[id] - taken[id].amount_icp_e8s
                                       ELSE before[id]
               /\ SumOver(before, DOMAIN before) - SumOver(fund_store, DOMAIN fund_store)
                      = total_amount_icp_e8s(taken)

\* A settled swap that kept some neurons, refunded others in full, gave part
\* of the amount back to a kept one, and left a roster neuron out altogether.
C28_Witness ==
    /\ swap_pc = "settled"
    /\ LET first == swap_state.initial.val.neurons_fund_reserves
           taken == swap_state.final.val.neurons_fund_reserves
       IN  /\ \E id \in DOMAIN taken :
                  /\ taken[id].amount_icp_e8s > 0
                  /\ taken[id].amount_icp_e8s < first[id].amount_icp_e8s
           /\ DOMAIN first # DOMAIN taken
           /\ Cardinality(DOMAIN first) < Len(swap_state.roster)

-----------------------------------------------------------------------------
(* Claims about the totality of construction (specification Spec) *)

\* C29 (construction is total): for every limits, every roster (empty, or
\* with maturities that are all 0) and every d, new and
\* from_initial_participation return Ok or Err; they never abort.
C29_ConstructionTotal ==
    /\ pc # "new" => initial.tag \in {"Ok", "Err"}
    /\ pc \in {"finalized", "settled"} => final.tag \in {"Ok", "Err"}

-----------------------------------------------------------------------------
(* Claims about the wire form of validated constraints (specification
   SpecMatched) *)

\* C30 (constraints wire round trip): converting validated constraints v to
\* the wire type and validating the result again succeeds and yields v's
\* threshold, v's maximum and v's coefficient intervals.
C30_ConstraintsRoundTrip ==
    mpc = "echoed" =>
        /\ echoed.tag = "Ok"
        /\ echoed.val.min_direct_participation_threshold_icp_e8s
               = params.val.min_direct_participation_threshold_icp_e8s
        /\ echoed.val.max_neurons_fund_participation_icp_e8s
               = params.val.max_neurons_fund_participation_icp_e8s
        /\ echoed.val.coefficient_intervals = params.val.coefficient_intervals

\* What the round trip does keep: the threshold and the intervals.
RoundTripKeepsThresholdAndIntervals ==
    mpc = "echoed" =>
        /\ echoed.tag = "Ok"
        /\ echoed.val.min_direct_participation_threshold_icp_e8s
               = params.val.min_direct_participation_threshold_icp_e8s
        /\ echoed.val.max_neurons_fund_participation_icp_e8s
               = params.val.min_direct_participation_threshold_icp_e8s
        /\ echoed.val.coefficient_intervals = params.val.coefficient_intervals

====
